---------------------------- MODULE Spec2Model ----------------------------
(***************************************************************************)
(* Model of the cubed Gaussian-splat renderer (src/gsplat.c, src/main.c):  *)
(* the splat store, EWA projection, the 16-bit radix depth sort, the       *)
(* fixed-point tile rasterizer and the tile flush.                         *)
(*                                                                         *)
(* Number representation.  The C code's float values are modelled as       *)
(* fixed-point numbers with ONE = 2^12 units per 1.0 (a value v stands for *)
(* v / ONE); products are floored to the grid.  The two float constants    *)
(* that lie outside the fixed-point range, the cull sentinel 1e30f and the *)
(* sort's 1e20f threshold, are represented by F1e30 and F1e20, which are   *)
(* larger than every depth the model can produce.  The C code's integer    *)
(* arithmetic (int32_t / int64_t in the rasterizer) is modelled exactly,   *)
(* including the narrowing of 64-bit products to int32_t; as TLC's own     *)
(* integers are 32 bits wide, 64-bit values are carried as pairs           *)
(* <<hi, lo>> standing for hi * 2^30 + lo.                                 *)
(***************************************************************************)
EXTENDS Integers, Sequences, FiniteSets, TLC

VARIABLES
    splats_3d,   \* store->splats_3d[0 .. count-1]
    splats_2d,   \* store->splats_2d[0 .. MAX_SPLATS-1] (malloc'd, rewritten by project)
    sort_idx,    \* store->sort_idx[0 .. count-1]
    count,       \* store->count
    cam,         \* camera_t: view matrix and intrinsics
    fb,          \* framebuf_t geometry: width, height, tiles_x, tiles_y, stride, bpp
    pixels,      \* fb->pixels, one packed value per surface pixel
    tile_buf,    \* fb->tile_buf: pixel ty * TILE_W + tx |-> its <<R, G, B, A>> cells
    pc,          \* position of the driver (main) or of the harness of a unit
    frame,       \* main's frame counter
    call,        \* the arguments and LUT reads of the latest rasterize_splat_tile call
    blend_log,   \* the rasterize_splat_tile calls of the latest rasterize_splats, in order
    running,     \* main.c's volatile run flag
    use_fpga,    \* main's use_fpga
    serial_in,   \* the bytes the serial line still delivers
    ctrl,        \* fpga_ctx_t ctrl[0 .. 3], the shared control block
    desc,        \* the tile descriptors in the shared descriptor region
    timeout      \* fpga_rasterize's poll counter

vars == <<splats_3d, splats_2d, sort_idx, count, cam, fb, pixels, tile_buf,
          pc, frame, call, blend_log, running, use_fpga, serial_in, ctrl, desc,
          timeout>>

(* The run flag as initialized, no FPGA offload, no serial input. *)
CpuDriver ==
    /\ running = 1
    /\ use_fpga = 0
    /\ serial_in = <<>>
    /\ ctrl = <<0, 0, 0, 0>>
    /\ desc = <<>>
    /\ timeout = 0

-----------------------------------------------------------------------------
(* Integer helpers *)

P2_30 == 1024 * 1024 * 1024
P2_15 == 32 * 1024
P2_16 == 64 * 1024

Min(a, b) == IF a < b THEN a ELSE b
Max(a, b) == IF a > b THEN a ELSE b
Abs(a) == IF a < 0 THEN -a ELSE a

(* C's signed >> on the target (arithmetic shift): floor division. *)
Shr(a, k) == a \div (2 ^ k)

(* 64-bit values as <<hi, lo>> = hi * 2^30 + lo with 0 <= lo < 2^30. *)
WNorm(hi, lo) == <<hi + (lo \div P2_30), lo % P2_30>>
WOfInt(a) == WNorm(0, a)
WAdd(x, y) == WNorm(x[1] + y[1], x[2] + y[2])

(* The exact product (int64_t)a * b, for |a|, |b| < 2^30. *)
WMulSmall(a, b) ==
    LET a1 == a \div P2_15
        a0 == a % P2_15
        b1 == b \div P2_15
        b0 == b % P2_15
        cross == a1 * b0 + a0 * b1
        c1 == cross \div P2_15
        c0 == cross % P2_15
    IN  WNorm(a1 * b1 + c1, c0 * P2_15 + a0 * b0)

(* The exact product (int64_t)a * b for any int32_t a, b. *)
WMul(a, b) ==
    IF \/ a > -P2_15 /\ a < P2_15 /\ b > -P2_16 /\ b < P2_16
       \/ a > -P2_16 /\ a < P2_16 /\ b > -P2_15 /\ b < P2_15
    THEN WOfInt(a * b)
    ELSE IF a > -P2_30 /\ a < P2_30 /\ b > -P2_30 /\ b < P2_30 THEN WMulSmall(a, b)
    ELSE LET ah == a \div 4
             al == a % 4
             bh == b \div 4
             bl == b % 4
             hh == WMulSmall(ah, bh)        \* times 16
             x1 == WMulSmall(ah, bl)        \* times 4
             x2 == WMulSmall(al, bh)        \* times 4
             m4(w) == WAdd(WAdd(w, w), WAdd(w, w))
         IN  WAdd(WAdd(m4(m4(hh)), m4(WAdd(x1, x2))), WOfInt(al * bl))

(* floor(x / 2^k) of a 64-bit value, 0 <= k <= 30. *)
WShr(x, k) ==
    LET d == 2 ^ k
        u == P2_30 \div d
    IN  <<x[1] \div d, (x[1] % d) * u + (x[2] \div d)>>

(* (int32_t)x: the low 32 bits of a 64-bit value, read as signed. *)
WTrunc32(x) ==
    LET h == x[1] % 4
    IN  IF h >= 2 THEN (h - 4) * P2_30 + x[2] ELSE h * P2_30 + x[2]

(* Whether a 64-bit value is representable as int32_t, and x < y. *)
WFits32(x) == x[1] \in {-2, -1, 0, 1}
WLess(x, y) == x[1] < y[1] \/ (x[1] = y[1] /\ x[2] < y[2])

(* int32_t addition as the target computes it (two's complement wrap). *)
Add32(a, b) ==
    IF a > -P2_30 /\ a < P2_30 /\ b > -P2_30 /\ b < P2_30 THEN a + b
    ELSE WTrunc32(WAdd(WOfInt(a), WOfInt(b)))

-----------------------------------------------------------------------------
(* Fixed-point stand-in for float *)

ONE == 64 * 64

(* a * b and 1 / a on the grid. *)
WToInt(x) == x[1] * P2_30 + x[2]
FMul(a, b) == WToInt(WShr(WMul(a, b), 12))
FRecip(a) == (ONE * ONE) \div a

(* (int)v: C's float -> integer conversion truncates toward zero. *)
FTrunc(v) == IF v >= 0 THEN v \div ONE ELSE -((-v) \div ONE)

(* floor(sqrt(v)) of a non-negative integer. *)
ISqrt(v) ==
    IF v <= 0 THEN 0
    ELSE CHOOSE r \in 1 .. v : r * r <= v /\ (r + 1) * (r + 1) > v

(* sqrtf on the grid: sqrt(v / ONE) * ONE = sqrt(v) * 64. *)
FSqrt(v) == ISqrt(v) * 64

(* The float constants of the code, on the grid.  A comparison v < c with c *)
(* off the grid is the comparison with c rounded up to the grid.            *)
F1e30 == 2000000000
F1e20 == 1000000000
F1em6 == 1
F1em8 == 1
FNear == -(ONE \div 10)
F0_3 == (3 * ONE) \div 10
F3_999 == (3999 * ONE) \div 1000

-----------------------------------------------------------------------------
(* Bounds of the model *)

MaxSortN == 3        \* splats in a store handed to sort_splats on its own

-----------------------------------------------------------------------------
(* SPLAT STORE *)

EmptyFn == [i \in {} |-> 0]

(* A splat_2d_t whose fields are all zero bits. *)
ZeroSplat2D ==
    [sx_fp |-> 0, sy_fp |-> 0, depth |-> 0,
     cov_a_fp |-> 0, cov_c_fp |-> 0, cov_b2_fp |-> 0,
     r |-> 0, g |-> 0, b |-> 0, opacity |-> 0,
     bbox_x0 |-> 0, bbox_y0 |-> 0, bbox_x1 |-> 0, bbox_y1 |-> 0]

(* What every cull branch of project_splats writes; the other fields stay. *)
Culled(s2) ==
    [s2 EXCEPT !.depth = F1e30,
               !.bbox_x0 = 0, !.bbox_x1 = 0, !.bbox_y0 = 0, !.bbox_y1 = 0]

-----------------------------------------------------------------------------
(* RADIX SORT (16-bit key from quantized depth) *)

RECURSIVE DepthRange(_, _, _, _)
(* The scan for dmin and dmax over the splats below 1e20f, from index i on. *)
DepthRange(s2, n, i, mm) ==
    IF i >= n THEN mm
    ELSE LET d == s2[i].depth
             lo == IF d < F1e20 /\ d < mm.dmin THEN d ELSE mm.dmin
             hi == IF d < F1e20 /\ d > mm.dmax THEN d ELSE mm.dmax
         IN  DepthRange(s2, n, i + 1, [dmin |-> lo, dmax |-> hi])

(* (uint16_t)(x * scale) with scale = 65535.0f / range, for 0 <= x <= range:  *)
(* floor(x * 65535 / range), computed in two byte steps to stay in 32 bits.  *)
Quantise(x, range) ==
    LET t  == x * 255
        q1 == t \div range
        r1 == t % range
    IN  q1 * 256 + (r1 * 256 + t) \div range

SortKeyPlain(d, dmin, range) == Quantise(d - dmin, range) % P2_16

(* 65535 - (uint16_t)((d - dmin) * scale), stored into a uint16_t. *)
SortKeyInverted(d, dmin, range) == (65535 - Quantise(d - dmin, range)) % P2_16

(* keys[i] of one splat: 0 for a culled splat, else the inverted 16-bit depth. *)
SortKey(d, dmin, range) ==
    IF d >= F1e20 THEN 0 ELSE SortKeyInverted(d, dmin, range)

(* The keys array that sort_splats builds. *)
SortKeys(s2, n) ==
    LET mm    == DepthRange(s2, n, 0, [dmin |-> F1e30, dmax |-> 0])
        rng   == mm.dmax - mm.dmin
        range == IF rng < F1em6 THEN ONE ELSE rng
    IN  [i \in 0 .. n - 1 |-> SortKey(s2[i].depth, mm.dmin, range)]

(* (key >> shift) & 0xFF *)
KeyByte(key, shift) == (key \div (2 ^ shift)) % 256

ScatterStepNoInc(st, src, keys, shift, i) ==
    LET k == KeyByte(keys[src[i]], shift)
    IN  [offset |-> st.offset,
         dst |-> [st.dst EXCEPT ![st.offset[k]] = src[i]]]

(* One iteration of a scatter loop: dst[offset[k]++] = src[i]. *)
ScatterStep(st, src, keys, shift, i) ==
    LET k == KeyByte(keys[src[i]], shift)
    IN  [offset |-> [st.offset EXCEPT ![k] = @ + 1],
         dst |-> [st.dst EXCEPT ![st.offset[k]] = src[i]]]

RECURSIVE Scatter(_, _, _, _, _, _)
Scatter(st, src, keys, shift, n, i) ==
    IF i >= n THEN st.dst
    ELSE Scatter(ScatterStep(st, src, keys, shift, i), src, keys, shift, n, i + 1)

RECURSIVE ScatterDown(_, _, _, _, _, _)
ScatterDown(st, src, keys, shift, n, i) ==
    IF i < 0 THEN st.dst
    ELSE ScatterDown(ScatterStep(st, src, keys, shift, i), src, keys, shift, n, i - 1)

(* The histogram and the exclusive prefix sum of one pass: offset[b] is the  *)
(* sum of count[0 .. b-1], the number of keys whose byte is below b.        *)
PassOffsets(hsrc, keys, shift, n) ==
    [b \in 0 .. 255 |->
        Cardinality({i \in 0 .. n - 1 : KeyByte(keys[hsrc[i]], shift) < b})]

CountingPassUnstable(src, dst0, keys, shift, n) ==
    IF shift = 0
    THEN Scatter([offset |-> PassOffsets(src, keys, shift, n), dst |-> dst0],
                 src, keys, shift, n, 0)
    ELSE ScatterDown([offset |-> PassOffsets(src, keys, shift, n), dst |-> dst0],
                     src, keys, shift, n, n - 1)

(* One stable counting-sort pass of src into dst0 by one byte of the key. *)
CountingPass(src, dst0, keys, shift, n) ==
    Scatter([offset |-> PassOffsets(src, keys, shift, n), dst |-> dst0],
            src, keys, shift, n, 0)

(* sort_splats: the new contents of sort_idx[0 .. n-1]. *)
SortedIdx(s2, n, old_idx) ==
    IF n = 0 THEN old_idx
    ELSE LET keys    == SortKeys(s2, n)
             ident   == [i \in 0 .. n - 1 |-> i]
             buf_idx == CountingPass(ident, [i \in 0 .. n - 1 |-> 0], keys, 0, n)
         IN  CountingPass(buf_idx, ident, keys, 8, n)

sort_splats ==
    /\ pc = "projected"
    /\ sort_idx' = SortedIdx(splats_2d, count, sort_idx)
    /\ pc' = "sorted"
    /\ UNCHANGED <<splats_3d, splats_2d, count, cam, fb, pixels, tile_buf,
                   frame, call, blend_log,
                   running, use_fpga, serial_in, ctrl, desc, timeout>>

-----------------------------------------------------------------------------
(* GAUSSIAN LUT and TILE RASTERIZER *)

TILE_W == 32
TILE_H == 32
GAUSS_LUT_SIZE == 2048
GAUSS_LUT_D2_CUTOFF_FP == 8 * 262144

(* init_gauss_lut: (uint16_t)(expf(-0.5f * i / 256.0f) * 65535.0f + 0.5f). *)
gauss_lut == <<
    65535, 65407, 65280, 65152, 65025, 64898, 64771, 64645, 64519, 64393, 64267, 64142, 64017, 63892, 63767, 63643,
    63519, 63395, 63271, 63148, 63024, 62901, 62779, 62656, 62534, 62412, 62290, 62169, 62047, 61926, 61805, 61685,
    61564, 61444, 61324, 61205, 61085, 60966, 60847, 60728, 60610, 60492, 60374, 60256, 60138, 60021, 59904, 59787,
    59670, 59554, 59438, 59322, 59206, 59090, 58975, 58860, 58745, 58631, 58516, 58402, 58288, 58174, 58061, 57948,
    57834, 57722, 57609, 57497, 57384, 57272, 57161, 57049, 56938, 56827, 56716, 56605, 56495, 56384, 56274, 56165,
    56055, 55946, 55837, 55728, 55619, 55510, 55402, 55294, 55186, 55078, 54971, 54864, 54757, 54650, 54543, 54437,
    54330, 54224, 54119, 54013, 53908, 53802, 53697, 53593, 53488, 53384, 53280, 53176, 53072, 52968, 52865, 52762,
    52659, 52556, 52454, 52351, 52249, 52147, 52045, 51944, 51842, 51741, 51640, 51540, 51439, 51339, 51238, 51138,
    51039, 50939, 50840, 50741, 50642, 50543, 50444, 50346, 50247, 50149, 50052, 49954, 49856, 49759, 49662, 49565,
    49468, 49372, 49276, 49179, 49083, 48988, 48892, 48797, 48701, 48606, 48512, 48417, 48322, 48228, 48134, 48040,
    47946, 47853, 47760, 47666, 47573, 47480, 47388, 47295, 47203, 47111, 47019, 46927, 46836, 46744, 46653, 46562,
    46471, 46381, 46290, 46200, 46110, 46020, 45930, 45840, 45751, 45662, 45572, 45484, 45395, 45306, 45218, 45130,
    45042, 44954, 44866, 44778, 44691, 44604, 44517, 44430, 44343, 44257, 44170, 44084, 43998, 43912, 43827, 43741,
    43656, 43571, 43486, 43401, 43316, 43231, 43147, 43063, 42979, 42895, 42811, 42728, 42644, 42561, 42478, 42395,
    42313, 42230, 42148, 42065, 41983, 41901, 41820, 41738, 41657, 41575, 41494, 41413, 41332, 41252, 41171, 41091,
    41011, 40931, 40851, 40771, 40692, 40612, 40533, 40454, 40375, 40296, 40218, 40139, 40061, 39983, 39905, 39827,
    39749, 39671, 39594, 39517, 39440, 39363, 39286, 39209, 39133, 39056, 38980, 38904, 38828, 38752, 38677, 38601,
    38526, 38451, 38376, 38301, 38226, 38152, 38077, 38003, 37929, 37855, 37781, 37707, 37634, 37560, 37487, 37414,
    37341, 37268, 37195, 37123, 37050, 36978, 36906, 36834, 36762, 36690, 36618, 36547, 36476, 36405, 36334, 36263,
    36192, 36121, 36051, 35980, 35910, 35840, 35770, 35700, 35631, 35561, 35492, 35423, 35353, 35284, 35216, 35147,
    35078, 35010, 34942, 34873, 34805, 34737, 34670, 34602, 34535, 34467, 34400, 34333, 34266, 34199, 34132, 34066,
    33999, 33933, 33867, 33800, 33735, 33669, 33603, 33537, 33472, 33407, 33342, 33276, 33212, 33147, 33082, 33017,
    32953, 32889, 32825, 32761, 32697, 32633, 32569, 32506, 32442, 32379, 32316, 32253, 32190, 32127, 32064, 32002,
    31939, 31877, 31815, 31753, 31691, 31629, 31567, 31506, 31444, 31383, 31321, 31260, 31199, 31138, 31078, 31017,
    30957, 30896, 30836, 30776, 30716, 30656, 30596, 30536, 30477, 30417, 30358, 30299, 30239, 30180, 30122, 30063,
    30004, 29946, 29887, 29829, 29771, 29713, 29655, 29597, 29539, 29481, 29424, 29366, 29309, 29252, 29195, 29138,
    29081, 29024, 28968, 28911, 28855, 28798, 28742, 28686, 28630, 28574, 28519, 28463, 28407, 28352, 28297, 28241,
    28186, 28131, 28076, 28022, 27967, 27912, 27858, 27804, 27749, 27695, 27641, 27587, 27533, 27480, 27426, 27372,
    27319, 27266, 27213, 27159, 27106, 27054, 27001, 26948, 26896, 26843, 26791, 26738, 26686, 26634, 26582, 26530,
    26479, 26427, 26375, 26324, 26272, 26221, 26170, 26119, 26068, 26017, 25966, 25916, 25865, 25815, 25764, 25714,
    25664, 25614, 25564, 25514, 25464, 25414, 25365, 25315, 25266, 25217, 25167, 25118, 25069, 25020, 24972, 24923,
    24874, 24826, 24777, 24729, 24681, 24633, 24584, 24537, 24489, 24441, 24393, 24346, 24298, 24251, 24203, 24156,
    24109, 24062, 24015, 23968, 23921, 23875, 23828, 23782, 23735, 23689, 23643, 23597, 23550, 23505, 23459, 23413,
    23367, 23322, 23276, 23231, 23185, 23140, 23095, 23050, 23005, 22960, 22915, 22871, 22826, 22781, 22737, 22693,
    22648, 22604, 22560, 22516, 22472, 22428, 22384, 22341, 22297, 22254, 22210, 22167, 22124, 22080, 22037, 21994,
    21951, 21909, 21866, 21823, 21781, 21738, 21696, 21653, 21611, 21569, 21527, 21485, 21443, 21401, 21359, 21318,
    21276, 21235, 21193, 21152, 21111, 21069, 21028, 20987, 20946, 20905, 20865, 20824, 20783, 20743, 20702, 20662,
    20622, 20581, 20541, 20501, 20461, 20421, 20381, 20341, 20302, 20262, 20223, 20183, 20144, 20105, 20065, 20026,
    19987, 19948, 19909, 19870, 19832, 19793, 19754, 19716, 19677, 19639, 19600, 19562, 19524, 19486, 19448, 19410,
    19372, 19334, 19297, 19259, 19221, 19184, 19146, 19109, 19072, 19035, 18997, 18960, 18923, 18886, 18850, 18813,
    18776, 18739, 18703, 18666, 18630, 18594, 18557, 18521, 18485, 18449, 18413, 18377, 18341, 18305, 18270, 18234,
    18198, 18163, 18127, 18092, 18057, 18022, 17986, 17951, 17916, 17881, 17846, 17812, 17777, 17742, 17708, 17673,
    17639, 17604, 17570, 17535, 17501, 17467, 17433, 17399, 17365, 17331, 17297, 17264, 17230, 17196, 17163, 17129,
    17096, 17062, 17029, 16996, 16963, 16930, 16897, 16864, 16831, 16798, 16765, 16732, 16700, 16667, 16635, 16602,
    16570, 16538, 16505, 16473, 16441, 16409, 16377, 16345, 16313, 16281, 16249, 16218, 16186, 16154, 16123, 16091,
    16060, 16029, 15997, 15966, 15935, 15904, 15873, 15842, 15811, 15780, 15749, 15719, 15688, 15657, 15627, 15596,
    15566, 15536, 15505, 15475, 15445, 15415, 15385, 15355, 15325, 15295, 15265, 15235, 15205, 15176, 15146, 15117,
    15087, 15058, 15028, 14999, 14970, 14940, 14911, 14882, 14853, 14824, 14795, 14766, 14738, 14709, 14680, 14651,
    14623, 14594, 14566, 14537, 14509, 14481, 14452, 14424, 14396, 14368, 14340, 14312, 14284, 14256, 14228, 14201,
    14173, 14145, 14118, 14090, 14063, 14035, 14008, 13980, 13953, 13926, 13899, 13872, 13845, 13818, 13791, 13764,
    13737, 13710, 13683, 13657, 13630, 13603, 13577, 13550, 13524, 13498, 13471, 13445, 13419, 13392, 13366, 13340,
    13314, 13288, 13262, 13236, 13211, 13185, 13159, 13133, 13108, 13082, 13057, 13031, 13006, 12980, 12955, 12930,
    12905, 12879, 12854, 12829, 12804, 12779, 12754, 12729, 12705, 12680, 12655, 12630, 12606, 12581, 12557, 12532,
    12508, 12483, 12459, 12435, 12410, 12386, 12362, 12338, 12314, 12290, 12266, 12242, 12218, 12194, 12170, 12146,
    12123, 12099, 12075, 12052, 12028, 12005, 11982, 11958, 11935, 11912, 11888, 11865, 11842, 11819, 11796, 11773,
    11750, 11727, 11704, 11681, 11658, 11636, 11613, 11590, 11568, 11545, 11523, 11500, 11478, 11455, 11433, 11411,
    11388, 11366, 11344, 11322, 11300, 11278, 11256, 11234, 11212, 11190, 11168, 11146, 11124, 11103, 11081, 11059,
    11038, 11016, 10995, 10973, 10952, 10931, 10909, 10888, 10867, 10846, 10824, 10803, 10782, 10761, 10740, 10719,
    10698, 10677, 10657, 10636, 10615, 10594, 10574, 10553, 10532, 10512, 10491, 10471, 10450, 10430, 10410, 10389,
    10369, 10349, 10329, 10309, 10288, 10268, 10248, 10228, 10208, 10188, 10169, 10149, 10129, 10109, 10089, 10070,
    10050, 10031, 10011, 9991, 9972, 9952, 9933, 9914, 9894, 9875, 9856, 9837, 9817, 9798, 9779, 9760,
    9741, 9722, 9703, 9684, 9665, 9646, 9627, 9609, 9590, 9571, 9553, 9534, 9515, 9497, 9478, 9460,
    9441, 9423, 9404, 9386, 9368, 9349, 9331, 9313, 9295, 9277, 9259, 9241, 9223, 9205, 9187, 9169,
    9151, 9133, 9115, 9097, 9080, 9062, 9044, 9026, 9009, 8991, 8974, 8956, 8939, 8921, 8904, 8887,
    8869, 8852, 8835, 8817, 8800, 8783, 8766, 8749, 8732, 8715, 8698, 8681, 8664, 8647, 8630, 8613,
    8596, 8580, 8563, 8546, 8529, 8513, 8496, 8480, 8463, 8447, 8430, 8414, 8397, 8381, 8364, 8348,
    8332, 8316, 8299, 8283, 8267, 8251, 8235, 8219, 8203, 8187, 8171, 8155, 8139, 8123, 8107, 8091,
    8075, 8060, 8044, 8028, 8013, 7997, 7981, 7966, 7950, 7935, 7919, 7904, 7888, 7873, 7858, 7842,
    7827, 7812, 7797, 7781, 7766, 7751, 7736, 7721, 7706, 7691, 7676, 7661, 7646, 7631, 7616, 7601,
    7586, 7571, 7557, 7542, 7527, 7513, 7498, 7483, 7469, 7454, 7439, 7425, 7410, 7396, 7382, 7367,
    7353, 7338, 7324, 7310, 7296, 7281, 7267, 7253, 7239, 7225, 7211, 7197, 7182, 7168, 7154, 7141,
    7127, 7113, 7099, 7085, 7071, 7057, 7044, 7030, 7016, 7002, 6989, 6975, 6962, 6948, 6934, 6921,
    6907, 6894, 6880, 6867, 6854, 6840, 6827, 6814, 6800, 6787, 6774, 6761, 6747, 6734, 6721, 6708,
    6695, 6682, 6669, 6656, 6643, 6630, 6617, 6604, 6591, 6578, 6565, 6553, 6540, 6527, 6514, 6502,
    6489, 6476, 6464, 6451, 6438, 6426, 6413, 6401, 6388, 6376, 6363, 6351, 6339, 6326, 6314, 6301,
    6289, 6277, 6265, 6252, 6240, 6228, 6216, 6204, 6192, 6180, 6168, 6156, 6144, 6132, 6120, 6108,
    6096, 6084, 6072, 6060, 6048, 6036, 6025, 6013, 6001, 5989, 5978, 5966, 5954, 5943, 5931, 5920,
    5908, 5897, 5885, 5874, 5862, 5851, 5839, 5828, 5817, 5805, 5794, 5783, 5771, 5760, 5749, 5738,
    5726, 5715, 5704, 5693, 5682, 5671, 5660, 5649, 5638, 5627, 5616, 5605, 5594, 5583, 5572, 5561,
    5550, 5539, 5529, 5518, 5507, 5496, 5486, 5475, 5464, 5453, 5443, 5432, 5422, 5411, 5400, 5390,
    5379, 5369, 5358, 5348, 5338, 5327, 5317, 5306, 5296, 5286, 5275, 5265, 5255, 5245, 5234, 5224,
    5214, 5204, 5194, 5183, 5173, 5163, 5153, 5143, 5133, 5123, 5113, 5103, 5093, 5083, 5073, 5063,
    5054, 5044, 5034, 5024, 5014, 5004, 4995, 4985, 4975, 4965, 4956, 4946, 4936, 4927, 4917, 4908,
    4898, 4888, 4879, 4869, 4860, 4850, 4841, 4832, 4822, 4813, 4803, 4794, 4785, 4775, 4766, 4757,
    4747, 4738, 4729, 4720, 4710, 4701, 4692, 4683, 4674, 4665, 4656, 4646, 4637, 4628, 4619, 4610,
    4601, 4592, 4583, 4574, 4565, 4557, 4548, 4539, 4530, 4521, 4512, 4503, 4495, 4486, 4477, 4468,
    4460, 4451, 4442, 4434, 4425, 4416, 4408, 4399, 4391, 4382, 4373, 4365, 4356, 4348, 4339, 4331,
    4323, 4314, 4306, 4297, 4289, 4280, 4272, 4264, 4255, 4247, 4239, 4231, 4222, 4214, 4206, 4198,
    4190, 4181, 4173, 4165, 4157, 4149, 4141, 4133, 4125, 4117, 4108, 4100, 4092, 4084, 4077, 4069,
    4061, 4053, 4045, 4037, 4029, 4021, 4013, 4005, 3998, 3990, 3982, 3974, 3967, 3959, 3951, 3943,
    3936, 3928, 3920, 3913, 3905, 3897, 3890, 3882, 3875, 3867, 3860, 3852, 3845, 3837, 3830, 3822,
    3815, 3807, 3800, 3792, 3785, 3778, 3770, 3763, 3755, 3748, 3741, 3734, 3726, 3719, 3712, 3704,
    3697, 3690, 3683, 3676, 3668, 3661, 3654, 3647, 3640, 3633, 3626, 3619, 3612, 3605, 3598, 3590,
    3583, 3576, 3570, 3563, 3556, 3549, 3542, 3535, 3528, 3521, 3514, 3507, 3500, 3494, 3487, 3480,
    3473, 3466, 3460, 3453, 3446, 3439, 3433, 3426, 3419, 3413, 3406, 3399, 3393, 3386, 3380, 3373,
    3366, 3360, 3353, 3347, 3340, 3334, 3327, 3321, 3314, 3308, 3301, 3295, 3288, 3282, 3276, 3269,
    3263, 3256, 3250, 3244, 3237, 3231, 3225, 3218, 3212, 3206, 3200, 3193, 3187, 3181, 3175, 3169,
    3162, 3156, 3150, 3144, 3138, 3132, 3126, 3119, 3113, 3107, 3101, 3095, 3089, 3083, 3077, 3071,
    3065, 3059, 3053, 3047, 3041, 3035, 3029, 3023, 3018, 3012, 3006, 3000, 2994, 2988, 2982, 2977,
    2971, 2965, 2959, 2953, 2948, 2942, 2936, 2930, 2925, 2919, 2913, 2908, 2902, 2896, 2891, 2885,
    2879, 2874, 2868, 2863, 2857, 2851, 2846, 2840, 2835, 2829, 2824, 2818, 2813, 2807, 2802, 2796,
    2791, 2785, 2780, 2775, 2769, 2764, 2758, 2753, 2748, 2742, 2737, 2731, 2726, 2721, 2716, 2710,
    2705, 2700, 2694, 2689, 2684, 2679, 2673, 2668, 2663, 2658, 2653, 2647, 2642, 2637, 2632, 2627,
    2622, 2617, 2612, 2606, 2601, 2596, 2591, 2586, 2581, 2576, 2571, 2566, 2561, 2556, 2551, 2546,
    2541, 2536, 2531, 2526, 2521, 2516, 2511, 2507, 2502, 2497, 2492, 2487, 2482, 2477, 2473, 2468,
    2463, 2458, 2453, 2448, 2444, 2439, 2434, 2429, 2425, 2420, 2415, 2411, 2406, 2401, 2396, 2392,
    2387, 2382, 2378, 2373, 2369, 2364, 2359, 2355, 2350, 2346, 2341, 2336, 2332, 2327, 2323, 2318,
    2314, 2309, 2305, 2300, 2296, 2291, 2287, 2282, 2278, 2273, 2269, 2264, 2260, 2256, 2251, 2247,
    2242, 2238, 2234, 2229, 2225, 2221, 2216, 2212, 2208, 2203, 2199, 2195, 2191, 2186, 2182, 2178,
    2173, 2169, 2165, 2161, 2157, 2152, 2148, 2144, 2140, 2136, 2131, 2127, 2123, 2119, 2115, 2111,
    2107, 2103, 2098, 2094, 2090, 2086, 2082, 2078, 2074, 2070, 2066, 2062, 2058, 2054, 2050, 2046,
    2042, 2038, 2034, 2030, 2026, 2022, 2018, 2014, 2010, 2006, 2002, 1998, 1995, 1991, 1987, 1983,
    1979, 1975, 1971, 1967, 1964, 1960, 1956, 1952, 1948, 1945, 1941, 1937, 1933, 1929, 1926, 1922,
    1918, 1914, 1911, 1907, 1903, 1899, 1896, 1892, 1888, 1885, 1881, 1877, 1874, 1870, 1866, 1863,
    1859, 1855, 1852, 1848, 1845, 1841, 1837, 1834, 1830, 1827, 1823, 1820, 1816, 1812, 1809, 1805,
    1802, 1798, 1795, 1791, 1788, 1784, 1781, 1777, 1774, 1770, 1767, 1764, 1760, 1757, 1753, 1750,
    1746, 1743, 1740, 1736, 1733, 1729, 1726, 1723, 1719, 1716, 1713, 1709, 1706, 1703, 1699, 1696,
    1693, 1689, 1686, 1683, 1680, 1676, 1673, 1670, 1666, 1663, 1660, 1657, 1654, 1650, 1647, 1644,
    1641, 1637, 1634, 1631, 1628, 1625, 1622, 1618, 1615, 1612, 1609, 1606, 1603, 1600, 1596, 1593,
    1590, 1587, 1584, 1581, 1578, 1575, 1572, 1569, 1566, 1562, 1559, 1556, 1553, 1550, 1547, 1544,
    1541, 1538, 1535, 1532, 1529, 1526, 1523, 1520, 1517, 1514, 1511, 1508, 1506, 1503, 1500, 1497,
    1494, 1491, 1488, 1485, 1482, 1479, 1476, 1474, 1471, 1468, 1465, 1462, 1459, 1456, 1454, 1451,
    1448, 1445, 1442, 1439, 1437, 1434, 1431, 1428, 1425, 1423, 1420, 1417, 1414, 1412, 1409, 1406,
    1403, 1401, 1398, 1395, 1392, 1390, 1387, 1384, 1382, 1379, 1376, 1373, 1371, 1368, 1365, 1363,
    1360, 1357, 1355, 1352, 1350, 1347, 1344, 1342, 1339, 1336, 1334, 1331, 1329, 1326, 1323, 1321,
    1318, 1316, 1313, 1311, 1308, 1305, 1303, 1300, 1298, 1295, 1293, 1290, 1288, 1285, 1283, 1280,
    1278, 1275, 1273, 1270, 1268, 1265, 1263, 1260, 1258, 1255, 1253, 1251, 1248, 1246, 1243, 1241,
    1238, 1236, 1234, 1231, 1229, 1226, 1224, 1222, 1219, 1217, 1214, 1212, 1210, 1207, 1205, 1203 >>

(* gauss_lut[i].  An index outside the table would read other memory; no run *)
(* of the code does (C9), and the model gives such a read the value 0.       *)
LutRead(i) == IF i \in 0 .. GAUSS_LUT_SIZE - 1 THEN gauss_lut[i + 1] ELSE 0

(* The tile buffer's TILE_H * TILE_W * 4 uint16_t cells, held per pixel:     *)
(* tile_buf[ty * TILE_W + tx][k + 1] is row[tx * 4 + k] of the source.       *)
TilePixels == 0 .. TILE_H * TILE_W - 1

(* tile_clear *)
ZeroTile == [i \in TilePixels |-> <<0, 0, 0, 0>>]

(* The cleared buffer of a build whose tiles are tw x th pixels. *)
ZeroTileOf(tw, th) == [i \in 0 .. th * tw - 1 |-> <<0, 0, 0, 0>>]

(* The tile buffer left as it is. *)
TileClearSkipped(buf, tw, th) == buf

(* tile_clear on the buffer buf: the memset to 0. *)
TileClear(buf, tw, th) == ZeroTileOf(tw, th)

PixelSkipNoCutoff(d2_sum) == d2_sum < 0

(* The two cutoff tests of the inner loop: d2_sum out of [0, 8.0) or an LUT  *)
(* index past the table.                                                     *)
PixelSkip(d2_sum) ==
    \/ d2_sum < 0
    \/ d2_sum >= GAUSS_LUT_D2_CUTOFF_FP
    \/ Shr(d2_sum, 10) >= GAUSS_LUT_SIZE

WeightNoOpacity(gauss, opacity) == gauss \div 512

(* w = (gauss * opacity) >> 17, u0.7 *)
Weight(gauss, opacity) == (gauss * opacity) \div 131072

(* The blend that keeps the whole old value. *)
BlendChannelAdditive(src10, w, old) == ((src10 * w + old * 128) \div 128) % P2_16

(* (uint16_t)((src10 * w + old * omw) >> 7) with omw = 128 - w *)
BlendChannel(src10, w, old) == ((src10 * w + old * (128 - w)) \div 128) % P2_16

(* The blend weight of the inner loop for a pixel with this d2_sum; 0 stands *)
(* for every path to next_pixel that leaves the pixel alone.                 *)
PixelWeight(s, d2_sum) ==
    IF PixelSkip(d2_sum) THEN 0
    ELSE LET gauss == LutRead(Shr(d2_sum, 10))
             w     == Weight(gauss, s.opacity)
         IN  IF w <= 0 THEN 0 ELSE IF w > 128 THEN 128 ELSE w

(* The four blends of one pixel with weight w > 0. *)
BlendPixel(s, w, old) ==
    << BlendChannel(s.r * 4, w, old[1]),
       BlendChannel(s.g * 4, w, old[2]),
       BlendChannel(s.b * 4, w, old[3]),
       BlendChannel(1020, w, old[4]) >>

(* d2_sum = (int32_t)(a * (dx2_raw >> 4) + b2 * (dxdy_raw >> 4) + term_c) *)
D2Sum(s, dx2_raw, dxdy_raw, term_c) ==
    LET term_a == WMul(s.cov_a_fp, Shr(dx2_raw, 4))
        term_b == WMul(s.cov_b2_fp, Shr(dxdy_raw, 4))
    IN  WTrunc32(WAdd(WAdd(term_a, term_b), term_c))

(* The update without the constant term of (dx + 16)^2. *)
RowStepNoConst(dx_fp, dy_fp, dx2_raw, dxdy_raw) ==
    << dx_fp + 16,
       Add32(dx2_raw, WTrunc32(WMul(dx_fp, 32))),
       Add32(dxdy_raw, WTrunc32(WMul(dy_fp, 16))) >>

(* next_pixel: dx2_raw += (dx_fp << 5) + 256; dxdy_raw += (dy_fp << 4);      *)
(* dx_fp += 16, as <<dx_fp, dx2_raw, dxdy_raw>>.  int32_t arithmetic wraps   *)
(* as on the target.                                                         *)
RowStep(dx_fp, dy_fp, dx2_raw, dxdy_raw) ==
    << dx_fp + 16,
       Add32(dx2_raw, Add32(WTrunc32(WMul(dx_fp, 32)), 256)),
       Add32(dxdy_raw, WTrunc32(WMul(dy_fp, 16))) >>

RECURSIVE RasterRow(_, _, _, _, _, _, _, _)
(* The d2_sum of the n pixels of one row, in tx order: acc holds those of    *)
(* the pixels done, dx_fp, dx2_raw and dxdy_raw are the loop's incrementally *)
(* updated variables.                                                        *)
RasterRow(acc, s, n, dy_fp, term_c, dx_fp, dx2_raw, dxdy_raw) ==
    IF Len(acc) >= n THEN acc
    ELSE LET nx == RowStep(dx_fp, dy_fp, dx2_raw, dxdy_raw)
         IN  RasterRow(Append(acc, D2Sum(s, dx2_raw, dxdy_raw, term_c)),
                       s, n, dy_fp, term_c, nx[1], nx[2], nx[3])

RECURSIVE RowTrace(_, _, _, _, _, _)
(* The loop variables <<dx_fp, dx2_raw, dxdy_raw>> at each of the n pixels   *)
(* of one row, in tx order.                                                  *)
RowTrace(acc, n, dy_fp, dx_fp, dx2_raw, dxdy_raw) ==
    IF Len(acc) >= n THEN acc
    ELSE LET nx == RowStep(dx_fp, dy_fp, dx2_raw, dxdy_raw)
         IN  RowTrace(Append(acc, <<dx_fp, dx2_raw, dxdy_raw>>),
                      n, dy_fp, nx[1], nx[2], nx[3])

(* The splat's bbox clipped to the tile, in tile coordinates, for tiles of   *)
(* tw x th pixels (TILE_W x TILE_H in the source).                           *)
ClipToTileOf(tw, th, s, tile_px, tile_py) ==
    [x0 |-> Max(s.bbox_x0 - tile_px, 0),
     y0 |-> Max(s.bbox_y0 - tile_py, 0),
     x1 |-> Min(s.bbox_x1 - tile_px, tw - 1),
     y1 |-> Min(s.bbox_y1 - tile_py, th - 1)]

ClipToTile(s, tile_px, tile_py) == ClipToTileOf(TILE_W, TILE_H, s, tile_px, tile_py)

RECURSIVE RasterRows(_, _, _, _, _)
(* The outer loop: one RasterRow per row ty = c.y0 .. c.y1, in order. *)
RasterRows(acc, s, tile_px, tile_py, c) ==
    IF Len(acc) >= c.y1 - c.y0 + 1 THEN acc
    ELSE LET ty     == c.y0 + Len(acc)
             dy_fp  == ((tile_py + ty) * 16 + 8) - s.sy_fp
             dy2_s  == WTrunc32(WShr(WMul(dy_fp, dy_fp), 4))
             term_c == WMul(s.cov_c_fp, dy2_s)
             dx_fp  == ((tile_px + c.x0) * 16 + 8) - s.sx_fp
         IN  RasterRows(Append(acc,
                            RasterRow(<<>>, s, c.x1 - c.x0 + 1, dy_fp, term_c,
                                      dx_fp,
                                      WTrunc32(WMul(dx_fp, dx_fp)),
                                      WTrunc32(WMul(dx_fp, dy_fp)))),
                        s, tile_px, tile_py, c)

(* The loop variables of every pixel of the clipped box c, row by row, from  *)
(* each row's initial dx_fp, dx2_raw and dxdy_raw.                           *)
RawRows(s, tile_px, tile_py, c) ==
    IF c.x0 > c.x1 \/ c.y0 > c.y1 THEN <<>>
    ELSE [k \in 1 .. c.y1 - c.y0 + 1 |->
            LET dy_fp == ((tile_py + c.y0 + k - 1) * 16 + 8) - s.sy_fp
                dx_fp == ((tile_px + c.x0) * 16 + 8) - s.sx_fp
            IN  RowTrace(<<>>, c.x1 - c.x0 + 1, dy_fp, dx_fp,
                         WTrunc32(WMul(dx_fp, dx_fp)), WTrunc32(WMul(dx_fp, dy_fp)))]

(* The pixel loop of rasterize_splat_tile on the clipped box c, given the    *)
(* d2_sum of each box pixel (d2[ty - c.y0 + 1][tx - c.x0 + 1]): the box, the *)
(* d2_sum values, the set of LUT indices read and the buffer after the call. *)
(* A buffer row holds tw pixels.                                             *)
BlendBox(tw, buf, s, c, d2) ==
    [clip |-> c,
     d2   |-> d2,
     lut  |-> UNION {{Shr(d2[y][x], 10) :
                         x \in {k \in 1 .. Len(d2[y]) : ~PixelSkip(d2[y][k])}} :
                     y \in 1 .. Len(d2)},
     buf  |-> [i \in DOMAIN buf |->
                 LET tx == i % tw
                     ty == i \div tw
                 IN  IF d2 = <<>> \/ tx < c.x0 \/ tx > c.x1
                                  \/ ty < c.y0 \/ ty > c.y1
                     THEN buf[i]
                     ELSE LET w == PixelWeight(s, d2[ty - c.y0 + 1][tx - c.x0 + 1])
                          IN  IF w = 0 THEN buf[i]
                              ELSE BlendPixel(s, w, buf[i])]]

(* rasterize_splat_tile from the clipped box on: nothing for an empty box. *)
RasterizeBox(tw, buf, s, tile_px, tile_py, c) ==
    BlendBox(tw, buf, s, c,
             IF c.x0 > c.x1 \/ c.y0 > c.y1 THEN <<>>
             ELSE RasterRows(<<>>, s, tile_px, tile_py, c))

(* rasterize_splat_tile on tile buffer buf.  clip is the clipped bbox, d2    *)
(* the d2_sum the loops computed (d2[ty - y0 + 1][tx - x0 + 1]), lut the LUT *)
(* indices read and buf the buffer afterwards.  Each pixel is blended at     *)
(* most once per call, from its own d2_sum.                                  *)
RasterizeSplatTileOf(tw, th, buf, s, tile_px, tile_py) ==
    RasterizeBox(tw, buf, s, tile_px, tile_py, ClipToTileOf(tw, th, s, tile_px, tile_py))

(* rasterize_splat_tile as built: tiles of TILE_W x TILE_H. *)
RasterizeSplatTile(buf, s, tile_px, tile_py) ==
    RasterizeSplatTileOf(TILE_W, TILE_H, buf, s, tile_px, tile_py)

(* The quick reject of rasterize_splats: does the bbox overlap the tile? *)
OverlapsTileInside(tw, th, s, tpx, tpy) ==
    /\ s.bbox_x0 >= tpx /\ s.bbox_x1 < tpx + tw
    /\ s.bbox_y0 >= tpy /\ s.bbox_y1 < tpy + th

OverlapsTileOf(tw, th, s, tpx, tpy) ==
    /\ ~(s.bbox_x1 < tpx \/ s.bbox_x0 >= tpx + tw)
    /\ ~(s.bbox_y1 < tpy \/ s.bbox_y0 >= tpy + th)

OverlapsTile(s, tpx, tpy) == OverlapsTileOf(TILE_W, TILE_H, s, tpx, tpy)

(* A 32-bit surface pixel is held as the int32_t with the same bits:       *)
(* 0xFF000000 | rgb is rgb - 2^24.                                          *)
OPAQUE == -(256 * 65536)

(* The 32bpp pixel tile_flush writes for the accumulator pixel px. *)
Pack32(px) ==
    LET r8 == Min(Shr(px[1], 2), 255)
        g8 == Min(Shr(px[2], 2), 255)
        b8 == Min(Shr(px[3], 2), 255)
    IN  OPAQUE + r8 * 65536 + g8 * 256 + b8

(* RGB565 with the green field shifted like the red and blue ones. *)
Pack16Green5(px) ==
    LET r5 == Min(Shr(px[1], 5), 31)
        g6 == Min(Shr(px[2], 5), 63)
        b5 == Min(Shr(px[3], 5), 31)
    IN  (r5 * 2048 + g6 * 32 + b5) % P2_16

(* The 16bpp (RGB565) pixel of tile_flush. *)
Pack16(px) ==
    LET r5 == Min(Shr(px[1], 5), 31)
        g6 == Min(Shr(px[2], 4), 63)
        b5 == Min(Shr(px[3], 5), 31)
    IN  (r5 * 2048 + g6 * 32 + b5) % P2_16

(* Surface pixels per line taken to be the render width. *)
StridePixelsIsWidth(f) == f.width

(* stride_pixels of tile_flush: fb->stride / 4 or fb->stride / 2. *)
StridePixels(f) == IF f.bpp = 32 THEN f.stride \div 4 ELSE f.stride \div 2

(* tile_flush: the surface after writing tile (tile_x, tile_y) from buf.     *)
(* Pixel i of the surface is written by iteration (ty, tx) when              *)
(* i = (y0 + ty) * stride_pixels + x0 + tx; rows at or below the surface     *)
(* height are not written.                                                   *)
TileFlushOf(tw, th, px, buf, f, tile_x, tile_y) ==
    LET x0 == tile_x * tw
        y0 == tile_y * th
        sp == StridePixels(f)
        Hit(i) == {j \in 0 .. (tw - 1) \div sp :
                      LET k  == i - x0
                          ty == (k \div sp) - j - y0
                          tx == (k % sp) + j * sp
                      IN  /\ k >= 0
                          /\ ty \in 0 .. th - 1
                          /\ tx \in 0 .. tw - 1
                          /\ y0 + ty < f.height}
    IN  [i \in DOMAIN px |->
            IF Hit(i) = {} THEN px[i]
            ELSE LET j  == CHOOSE m \in Hit(i) : \A m2 \in Hit(i) : m <= m2
                     ty == ((i - x0) \div sp) - j - y0
                     tx == ((i - x0) % sp) + j * sp
                     src == buf[ty * tw + tx]
                 IN  IF f.bpp = 32 THEN Pack32(src) ELSE Pack16(src)]

(* tile_flush as built. *)
TileFlush(px, buf, f, tile_x, tile_y) ==
    TileFlushOf(TILE_W, TILE_H, px, buf, f, tile_x, tile_y)

(* rasterize_splats: which splat the si-th iteration of the per-tile loop    *)
(* takes.                                                                    *)
SplatAtUnsorted(sidx, si) == si

SplatAt(sidx, si) == sidx[si]

(* The tile state after one rasterize_splat_tile call with result st. *)
LogCall(acc, st, idx, tpx, tpy) ==
    [buf |-> st.buf,
     log |-> Append(acc.log, [tile |-> <<tpx, tpy>>, idx |-> idx,
                              changed |-> st.buf # acc.buf])]

RECURSIVE BlendTile(_, _, _, _, _, _, _, _, _)
(* The splat loop of rasterize_splats for the tile at (tpx, tpy), from       *)
(* iteration si on.  acc.buf is the tile buffer; acc.log gains one entry per *)
(* rasterize_splat_tile call: the tile, the splat's index and whether the    *)
(* call changed any cell of the buffer.                                      *)
BlendTile(tw, th, acc, s2, sidx, n, si, tpx, tpy) ==
    IF si >= n THEN acc
    ELSE LET idx == SplatAt(sidx, si)
             s   == s2[idx]
         IN  IF ~OverlapsTileOf(tw, th, s, tpx, tpy)
             THEN BlendTile(tw, th, acc, s2, sidx, n, si + 1, tpx, tpy)
             ELSE BlendTile(tw, th,
                            LogCall(acc,
                                    RasterizeSplatTileOf(tw, th, acc.buf, s, tpx, tpy),
                                    idx, tpx, tpy),
                            s2, sidx, n, si + 1, tpx, tpy)

(* The frame state after flushing the finished tile (tile_x, tile_y). *)
FlushTile(tw, th, acc, done, f, tile_x, tile_y) ==
    [pixels |-> TileFlushOf(tw, th, acc.pixels, done.buf, f, tile_x, tile_y),
     buf    |-> done.buf,
     log    |-> done.log]

RECURSIVE RasterTiles(_, _, _, _, _, _, _, _)
(* The two tile loops of rasterize_splats from tile t = tile_y * tiles_x +   *)
(* tile_x on: clear, blend the overlapping splats, flush.                    *)
RasterTiles(tw, th, acc, s2, sidx, n, f, t) ==
    IF t >= f.tiles_x * f.tiles_y THEN acc
    ELSE LET tile_x == t % f.tiles_x
             tile_y == t \div f.tiles_x
         IN  RasterTiles(tw, th,
                         FlushTile(tw, th, acc,
                                   BlendTile(tw, th,
                                             [buf |-> TileClear(acc.buf, tw, th), log |-> acc.log],
                                             s2, sidx, n, 0,
                                             tile_x * tw, tile_y * th),
                                   f, tile_x, tile_y),
                         s2, sidx, n, f, t + 1)

(* rasterize_splats of a build with tiles of tw x th pixels, on a surface    *)
(* whose tiles_x and tiles_y fb_init computed for that tile size.            *)
RasterizeSplatsOf(tw, th, px, buf, s2, sidx, n, f) ==
    RasterTiles(tw, th, [pixels |-> px, buf |-> buf, log |-> <<>>], s2, sidx, n, f, 0)

(* rasterize_splats: the surface, the tile buffer and the call log after it. *)
RasterizeSplats(px, buf, s2, sidx, n, f) ==
    RasterizeSplatsOf(TILE_W, TILE_H, px, buf, s2, sidx, n, f)

-----------------------------------------------------------------------------
(* FRAMEBUFFER *)

(* fb_init on a device that reports vinfo.xres, vinfo.yres,                  *)
(* vinfo.bits_per_pixel and finfo.line_length.                               *)
FbInit(dev) ==
    [bpp       |-> dev.bits_per_pixel,
     width     |-> (dev.xres \div TILE_W) * TILE_W,
     height    |-> (dev.yres \div TILE_H) * TILE_H,
     tiles_x   |-> ((dev.xres \div TILE_W) * TILE_W) \div TILE_W,
     tiles_y   |-> ((dev.yres \div TILE_H) * TILE_H) \div TILE_H,
     stride    |-> dev.line_length,
     mmap_size |-> dev.line_length * dev.yres]

(* The mapped surface after fb_init's memset: one entry per whole pixel. *)
ClearSurface(f) == [i \in 0 .. (f.mmap_size \div (f.bpp \div 8)) - 1 |-> 0]

-----------------------------------------------------------------------------
(* CAMERA *)

(* tanf(fov_rad / 2) for main's fov_deg = 60, on the grid. *)
TanHalfFov == 2365

FDiv(a, b) == (a * ONE) \div b

(* cam_init(cam, 60.0f, width, height) *)
CamInit(width, height) ==
    LET fy == FDiv((height * ONE) \div 2, TanHalfFov)
    IN  [pos  |-> <<0, 0, 0>>,
         view |-> [k \in 0 .. 15 |-> IF k \in {0, 5, 10, 15} THEN ONE ELSE 0],
         fx   |-> fy,
         fy   |-> fy,
         cx   |-> (width * ONE) \div 2,
         cy   |-> (height * ONE) \div 2]

v3_dot(a, b) == FMul(a[1], b[1]) + FMul(a[2], b[2]) + FMul(a[3], b[3])

(* a - b, a x b and a / |a| as cam_lookat writes them out for f, s and u. *)
V3Sub(a, b) == <<a[1] - b[1], a[2] - b[2], a[3] - b[3]>>

V3Cross(a, b) ==
    <<FMul(a[2], b[3]) - FMul(a[3], b[2]),
      FMul(a[3], b[1]) - FMul(a[1], b[3]),
      FMul(a[1], b[2]) - FMul(a[2], b[1])>>

V3Normalize(a) ==
    LET len == FSqrt(v3_dot(a, a))
    IN  <<FDiv(a[1], len), FDiv(a[2], len), FDiv(a[3], len)>>

(* The stores of cam_lookat into cam->pos and cam->view, given f, s and u. *)
ViewMatrix(c, eye, f, s, u) ==
    LET m == <<s[1], u[1], -f[1], 0,
               s[2], u[2], -f[2], 0,
               s[3], u[3], -f[3], 0,
               -v3_dot(s, eye), -v3_dot(u, eye), v3_dot(f, eye), ONE>>
    IN  [c EXCEPT !.pos = eye, !.view = [k \in 0 .. 15 |-> m[k + 1]]]

(* cam_lookat from the normalised f and s on: u = s x f, then the matrix. *)
LookatBasis(c, eye, f, s) == ViewMatrix(c, eye, f, s, V3Cross(s, f))

(* cam_lookat from the normalised f on: s = f x up, normalised. *)
LookatFrom(c, eye, f, up) == LookatBasis(c, eye, f, V3Normalize(V3Cross(f, up)))

(* cam_lookat: the camera with pos and view rebuilt from eye, target, up. *)
CamLookat(c, eye, target, up) ==
    LookatFrom(c, eye, V3Normalize(V3Sub(target, eye)), up)

-----------------------------------------------------------------------------
(* PROJECTION (EWA splatting) *)

(* The product of a 2x3 matrix A with a 3x3 matrix B, as the W and T loops   *)
(* of project_splats compute it.                                             *)
Mul23x33(A, B) ==
    [r \in 1 .. 2 |-> [k \in 1 .. 3 |->
        FMul(A[r][1], B[1][k]) + FMul(A[r][2], B[2][k]) + FMul(A[r][3], B[3][k])]]

(* Row r of T times row q of W. *)
RowDot(T, W, r, q) ==
    FMul(T[r][1], W[q][1]) + FMul(T[r][2], W[q][2]) + FMul(T[r][3], W[q][3])

(* The forward 2D covariance without the 0.3 low-pass term on the diagonal. *)
Cov2DNoLowPass(T, W) ==
    [ca |-> RowDot(T, W, 1, 1), cb |-> RowDot(T, W, 1, 2), cc |-> RowDot(T, W, 2, 2)]

(* cov2d = T * W^T, with 0.3f added to ca and cc. *)
Cov2D(T, W) ==
    [ca |-> RowDot(T, W, 1, 1) + F0_3,
     cb |-> RowDot(T, W, 1, 2),
     cc |-> RowDot(T, W, 2, 2) + F0_3]

(* The bbox clamps without the one on bx1. *)
ClampBBoxNoRight(bx0, by0, bx1, by1, screen_w, screen_h) ==
    [x0 |-> IF bx0 < 0 THEN 0 ELSE bx0,
     y0 |-> IF by0 < 0 THEN 0 ELSE by0,
     x1 |-> bx1,
     y1 |-> IF by1 >= screen_h * ONE THEN (screen_h - 1) * ONE ELSE by1]

(* The four clamps of the bbox to the surface. *)
ClampBBox(bx0, by0, bx1, by1, screen_w, screen_h) ==
    [x0 |-> IF bx0 < 0 THEN 0 ELSE bx0,
     y0 |-> IF by0 < 0 THEN 0 ELSE by0,
     x1 |-> IF bx1 >= screen_w * ONE THEN (screen_w - 1) * ONE ELSE bx1,
     y1 |-> IF by1 >= screen_h * ONE THEN (screen_h - 1) * ONE ELSE by1]

(* Clamp and conversion of the inverse covariance to u2.14 / s2.14. *)
CovFixed(inv_a, inv_b, inv_c) ==
    LET a_cl   == IF inv_a > F3_999 THEN F3_999 ELSE inv_a
        c_cl   == IF inv_c > F3_999 THEN F3_999 ELSE inv_c
        inv_b2 == 2 * inv_b
        b2_cl  == IF inv_b2 > F3_999 THEN F3_999
                  ELSE IF inv_b2 < -4 * ONE THEN -4 * ONE ELSE inv_b2
    IN  [a  |-> FTrunc(a_cl * 16384 + ONE \div 2) % P2_16,
         b2 |-> FTrunc(b2_cl * 16384),
         c  |-> FTrunc(c_cl * 16384 + ONE \div 2) % P2_16]

(* project_splats for one splat from the 3-sigma radii on: the off-screen    *)
(* and NaN cull, the bbox and the fixed-point conversions.  nan says that    *)
(* rx or ry is a NaN (sqrtf of a negative ca or cc), which makes bx0 or by0  *)
(* one.                                                                      *)
ProjectBox(s3, s2, f, depth, sx_f, sy_f, inv, rx, ry, nan) ==
    IF \/ nan
       \/ sx_f + rx < 0 \/ sy_f + ry < 0
       \/ sx_f - rx >= f.width * ONE \/ sy_f - ry >= f.height * ONE
    THEN Culled(s2)
    ELSE LET bb == ClampBBox(sx_f - rx, sy_f - ry, sx_f + rx, sy_f + ry,
                             f.width, f.height)
         IN  [sx_fp     |-> FTrunc(sx_f * 16 + ONE \div 2),
              sy_fp     |-> FTrunc(sy_f * 16 + ONE \div 2),
              depth     |-> depth,
              cov_a_fp  |-> inv.a,
              cov_c_fp  |-> inv.c,
              cov_b2_fp |-> inv.b2,
              r |-> s3.r, g |-> s3.g, b |-> s3.b, opacity |-> s3.alpha,
              bbox_x0   |-> FTrunc(bb.x0),
              bbox_y0   |-> FTrunc(bb.y0),
              bbox_x1   |-> FTrunc(bb.x1),
              bbox_y1   |-> FTrunc(bb.y1)]

(* project_splats for one splat from the determinant on. *)
ProjectDet(s3, s2, f, depth, sx_f, sy_f, cov, det) ==
    IF det < F1em8 THEN Culled(s2)
    ELSE LET inv_det == FDiv(ONE, det)
         IN  ProjectBox(s3, s2, f, depth, sx_f, sy_f,
                        CovFixed(FMul(cov.cc, inv_det), FMul(-cov.cb, inv_det),
                                 FMul(cov.ca, inv_det)),
                        3 * FSqrt(cov.ca), 3 * FSqrt(cov.cc),
                        cov.ca < 0 \/ cov.cc < 0)

(* project_splats for one splat from the forward 2D covariance on. *)
ProjectCov(s3, s2, f, depth, sx_f, sy_f, cov) ==
    ProjectDet(s3, s2, f, depth, sx_f, sy_f, cov,
               FMul(cov.ca, cov.cc) - FMul(cov.cb, cov.cb))

(* project_splats for one splat from W = J * R on. *)
ProjectW(s3, s2, f, depth, sx_f, sy_f, W) ==
    LET S == << <<s3.cov[1], s3.cov[2], s3.cov[3]>>,
                <<s3.cov[2], s3.cov[4], s3.cov[5]>>,
                <<s3.cov[3], s3.cov[5], s3.cov[6]>> >>
    IN  ProjectCov(s3, s2, f, depth, sx_f, sy_f, Cov2D(Mul23x33(W, S), W))

(* project_splats for one splat in front of the near plane, at camera-space  *)
(* position (cx, cy, cz) with iz = -1 / cz.                                  *)
ProjectFront(s3, s2, c, f, cx, cy, cz, iz) ==
    LET m == c.view
        J == << <<FMul(c.fx, iz), 0, FMul(FMul(FMul(c.fx, cx), iz), iz)>>,
                <<0, FMul(c.fy, iz), FMul(FMul(FMul(c.fy, cy), iz), iz)>> >>
        R == << <<m[0], m[4], m[8]>>,
                <<m[1], m[5], m[9]>>,
                <<m[2], m[6], m[10]>> >>
    IN  ProjectW(s3, s2, f, -cz,
                 FMul(FMul(c.fx, cx), iz) + c.cx,
                 FMul(FMul(c.fy, cy), iz) + c.cy,
                 Mul23x33(J, R))

(* The near-plane test of project_splats on the camera-space position. *)
ProjectCam(s3, s2, c, f, cx, cy, cz) ==
    IF cz >= FNear THEN Culled(s2)
    ELSE ProjectFront(s3, s2, c, f, cx, cy, cz, FDiv(-ONE, cz))

(* One iteration of project_splats: the splat_2d_t slot s2 after projecting  *)
(* s3 through camera c onto surface f.                                       *)
ProjectSplat(s3, s2, c, f) ==
    LET m == c.view
    IN  ProjectCam(s3, s2, c, f,
            FMul(m[0], s3.x) + FMul(m[4], s3.y) + FMul(m[8], s3.z) + m[12],
            FMul(m[1], s3.x) + FMul(m[5], s3.y) + FMul(m[9], s3.z) + m[13],
            FMul(m[2], s3.x) + FMul(m[6], s3.y) + FMul(m[10], s3.z) + m[14])

-----------------------------------------------------------------------------
(* sort_splats on its own: every store of up to MaxSortN projected splats   *)
(* whose depths are drawn from SortDepths.                                  *)

(* Two depths one grid step apart, three spread out, and the cull sentinel. *)
SortDepths == {ONE, ONE + 1, 4 * ONE, 6 * ONE, 20 * ONE, F1e30}

SortInput(d) == IF d >= F1e20 THEN Culled(ZeroSplat2D) ELSE [ZeroSplat2D EXCEPT !.depth = d]

InitSort ==
    /\ CpuDriver
    /\ count \in 0 .. MaxSortN
    /\ splats_2d \in [0 .. count - 1 -> {SortInput(d) : d \in SortDepths}]
    /\ splats_3d = EmptyFn
    /\ sort_idx = EmptyFn
    /\ cam = 0
    /\ fb = 0
    /\ pixels = EmptyFn
    /\ tile_buf = EmptyFn
    /\ pc = "projected"
    /\ frame = 0
    /\ call = 0
    /\ blend_log = <<>>

NextSort == sort_splats

SpecSort == InitSort /\ [][NextSort]_vars

-----------------------------------------------------------------------------
(* Claims about sort_splats *)

IsCulled(i) == splats_2d[i].depth >= F1e20
KeyOf(i) == SortKeys(splats_2d, count)[i]
PosOf(i) == CHOOSE p \in 0 .. count - 1 : sort_idx[p] = i

(* C1: after sort_splats on a store with count >= 1, sort_idx[0..count-1] is *)
(* a permutation of 0..count-1: every index occurs exactly once.             *)
C1_SortIsPermutation ==
    (pc = "sorted" /\ count >= 1) =>
        /\ DOMAIN sort_idx = 0 .. count - 1
        /\ \A v \in 0 .. count - 1 :
               Cardinality({p \in 0 .. count - 1 : sort_idx[p] = v}) = 1

C1_Witness ==
    /\ pc = "sorted" /\ count = 3
    /\ IsCulled(1) /\ ~IsCulled(0) /\ ~IsCulled(2)
    /\ splats_2d[0].depth < splats_2d[2].depth
    /\ sort_idx = [i \in 0 .. 2 |-> IF i = 0 THEN 1 ELSE IF i = 1 THEN 2 ELSE 0]

(* C2 as claimed: after sort_splats, adjacent permutation entries that both  *)
(* have non-sentinel depth are in non-increasing depth order.                *)
C2_DepthOrder ==
    pc = "sorted" =>
        \A p \in 0 .. count - 2 :
            (~IsCulled(sort_idx[p]) /\ ~IsCulled(sort_idx[p + 1])) =>
                splats_2d[sort_idx[p]].depth >= splats_2d[sort_idx[p + 1]].depth

(* C2 as amended: adjacent non-sentinel entries are in non-decreasing order  *)
(* of their 16-bit keys, so their depths are non-increasing whenever the     *)
(* keys differ; two depths quantised to the same key stay in index order.    *)
C2_KeyOrder ==
    pc = "sorted" =>
        \A p \in 0 .. count - 2 :
            LET i == sort_idx[p]
                j == sort_idx[p + 1]
            IN  (~IsCulled(i) /\ ~IsCulled(j)) =>
                    /\ KeyOf(i) <= KeyOf(j)
                    /\ KeyOf(i) < KeyOf(j) => splats_2d[i].depth > splats_2d[j].depth
                    /\ KeyOf(i) = KeyOf(j) => i < j

C2_Witness ==
    /\ pc = "sorted" /\ count = 3
    /\ \A i \in 0 .. 2 : ~IsCulled(i)
    /\ KeyOf(sort_idx[0]) < KeyOf(sort_idx[1])
    /\ KeyOf(sort_idx[1]) = KeyOf(sort_idx[2])
    /\ splats_2d[sort_idx[1]].depth < splats_2d[sort_idx[2]].depth

(* C3 as claimed: after sort_splats every splat with sentinel depth comes    *)
(* after every splat with non-sentinel depth in sort_idx.                    *)
C3_CulledAtEnd ==
    pc = "sorted" =>
        \A p, q \in 0 .. count - 1 :
            (IsCulled(sort_idx[p]) /\ ~IsCulled(sort_idx[q])) => q < p

(* C4: sort_splats is stable: two splats i < j with the same 16-bit key      *)
(* appear with i before j, and when all depths are equal the permutation is  *)
(* the identity.                                                             *)
C4_Stable ==
    pc = "sorted" =>
        /\ \A i, j \in 0 .. count - 1 :
               (i < j /\ KeyOf(i) = KeyOf(j)) => PosOf(i) < PosOf(j)
        /\ (\A i \in 0 .. count - 1 : splats_2d[i].depth = splats_2d[0].depth) =>
               sort_idx = [i \in 0 .. count - 1 |-> i]

C4_Witness ==
    /\ pc = "sorted" /\ count = 3
    /\ KeyOf(0) = KeyOf(2) /\ KeyOf(1) < KeyOf(0)
    /\ splats_2d[0].depth # splats_2d[2].depth
    /\ PosOf(1) = 0 /\ PosOf(0) = 1 /\ PosOf(2) = 2

-----------------------------------------------------------------------------
(* rasterize_splat_tile on its own: a tile buffer is cleared and then takes  *)
(* up to MaxBlends splats from TileInputs, each in a tile its bbox overlaps. *)

MaxBlends == 2

(* Projected splats on a 64 x 64 surface, centred near the tile borders: an  *)
(* opaque red one, a half-transparent blue one, the blue one's footprint     *)
(* with opacity 0, a slanted green one over the corner of all four tiles,    *)
(* one whose coefficients make the quadratic form indefinite, and a culled   *)
(* one that keeps the other fields of an earlier frame.                      *)
TileInputs ==
    { [sx_fp |-> 488, sy_fp |-> 168, depth |-> 5 * ONE,
       cov_a_fp |-> 7282, cov_c_fp |-> 7282, cov_b2_fp |-> 0,
       r |-> 255, g |-> 0, b |-> 0, opacity |-> 255,
       bbox_x0 |-> 26, bbox_y0 |-> 6, bbox_x1 |-> 35, bbox_y1 |-> 15],
      [sx_fp |-> 528, sy_fp |-> 192, depth |-> 4 * ONE,
       cov_a_fp |-> 4096, cov_c_fp |-> 4096, cov_b2_fp |-> 0,
       r |-> 0, g |-> 0, b |-> 255, opacity |-> 128,
       bbox_x0 |-> 27, bbox_y0 |-> 6, bbox_x1 |-> 39, bbox_y1 |-> 18],
      [sx_fp |-> 528, sy_fp |-> 192, depth |-> 4 * ONE,
       cov_a_fp |-> 4096, cov_c_fp |-> 4096, cov_b2_fp |-> 0,
       r |-> 0, g |-> 255, b |-> 255, opacity |-> 0,
       bbox_x0 |-> 27, bbox_y0 |-> 6, bbox_x1 |-> 39, bbox_y1 |-> 18],
      [sx_fp |-> 496, sy_fp |-> 496, depth |-> 6 * ONE,
       cov_a_fp |-> 8192, cov_c_fp |-> 8192, cov_b2_fp |-> -9830,
       r |-> 16, g |-> 255, b |-> 32, opacity |-> 200,
       bbox_x0 |-> 26, bbox_y0 |-> 26, bbox_x1 |-> 36, bbox_y1 |-> 36],
      [sx_fp |-> 40, sy_fp |-> 968, depth |-> 3 * ONE,
       cov_a_fp |-> 65520, cov_c_fp |-> 4915, cov_b2_fp |-> 55705,
       r |-> 255, g |-> 255, b |-> 255, opacity |-> 255,
       bbox_x0 |-> 0, bbox_y0 |-> 57, bbox_x1 |-> 4, bbox_y1 |-> 63],
      Culled([sx_fp |-> 8, sy_fp |-> 8, depth |-> 5 * ONE,
              cov_a_fp |-> 54613, cov_c_fp |-> 54613, cov_b2_fp |-> 0,
              r |-> 0, g |-> 255, b |-> 0, opacity |-> 255,
              bbox_x0 |-> 0, bbox_y0 |-> 0, bbox_x1 |-> 2, bbox_y1 |-> 2]) }

TileOrigins == {<<0, 0>>, <<32, 0>>, <<0, 32>>, <<32, 32>>}

NoCall ==
    [s |-> ZeroSplat2D, tile_px |-> 0, tile_py |-> 0,
     clip |-> [x0 |-> 0, y0 |-> 0, x1 |-> -1, y1 |-> -1], d2 |-> <<>>, lut |-> {},
     raw |-> <<>>]

InitTile ==
    /\ CpuDriver
    /\ tile_buf = ZeroTile
    /\ call = NoCall
    /\ blend_log = <<>>
    /\ pc = "tile"
    /\ count = 0
    /\ splats_3d = EmptyFn
    /\ splats_2d = EmptyFn
    /\ sort_idx = EmptyFn
    /\ cam = 0
    /\ fb = 0
    /\ pixels = EmptyFn
    /\ frame = 0

tile_clear ==
    /\ pc = "tile"
    /\ tile_buf' = ZeroTile
    /\ blend_log' = <<>>
    /\ UNCHANGED <<splats_3d, splats_2d, sort_idx, count, cam, fb, pixels,
                   pc, frame, call,
                   running, use_fpga, serial_in, ctrl, desc, timeout>>

rasterize_splat_tile(s, tpx, tpy) ==
    /\ pc = "tile"
    /\ Len(blend_log) < MaxBlends
    /\ OverlapsTile(s, tpx, tpy)
    /\ \E st \in {RasterizeSplatTile(tile_buf, s, tpx, tpy)} :
           /\ tile_buf' = st.buf
           /\ call' = [s |-> s, tile_px |-> tpx, tile_py |-> tpy,
                       clip |-> st.clip, d2 |-> st.d2, lut |-> st.lut,
                       raw |-> RawRows(s, tpx, tpy, st.clip)]
    /\ blend_log' = Append(blend_log, <<tpx, tpy>>)
    /\ UNCHANGED <<splats_3d, splats_2d, sort_idx, count, cam, fb, pixels,
                   pc, frame,
                   running, use_fpga, serial_in, ctrl, desc, timeout>>

NextTile ==
    \/ tile_clear
    \/ \E s \in TileInputs, t \in TileOrigins : rasterize_splat_tile(s, t[1], t[2])

SpecTile == InitTile /\ [][NextTile]_vars

(* Long slanted splats on a 64x64 surface, as project_splats leaves them for *)
(* the 60 degree camera at the eye (0, 0, 2) or (0, 0, 1.5) looking at the   *)
(* origin: the splat at (1.625, 1.5, 0) with covariance (172, 204, 45, 242,  *)
(* 54, 12) / 256, the one at (1.75, -1.375, 0) with covariance (64, 124, 31, *)
(* 240, 60, 15) / 256 and, from the nearer eye, the one at (-0.125, -0.75,   *)
(* 0.5) with covariance (40, 48, 7, 58, 9, 1) / 256.  Their centres lie off  *)
(* the surface or near its edge and their coefficients sit on or near the    *)
(* clamps of the fixed-point conversion.                                     *)
LongInputs ==
    { [sx_fp |-> 1233, sy_fp |-> 1177, depth |-> 2 * ONE,
       cov_a_fp |-> 65520, cov_c_fp |-> 65520, cov_b2_fp |-> -65536,
       r |-> 255, g |-> 255, b |-> 255, opacity |-> 255,
       bbox_x0 |-> 0, bbox_y0 |-> 0, bbox_x1 |-> 63, bbox_y1 |-> 63],
      [sx_fp |-> 1288, sy_fp |-> -97, depth |-> 2 * ONE,
       cov_a_fp |-> 48691, cov_c_fp |-> 38386, cov_b2_fp |-> -65536,
       r |-> 255, g |-> 128, b |-> 0, opacity |-> 255,
       bbox_x0 |-> 21, bbox_y0 |-> 0, bbox_x1 |-> 63, bbox_y1 |-> 60],
      [sx_fp |-> 438, sy_fp |-> 69, depth |-> (3 * ONE) \div 2,
       cov_a_fp |-> 65520, cov_c_fp |-> 65520, cov_b2_fp |-> -65536,
       r |-> 0, g |-> 128, b |-> 255, opacity |-> 200,
       bbox_x0 |-> 0, bbox_y0 |-> 0, bbox_x1 |-> 63, bbox_y1 |-> 52] }

NextLong ==
    \/ tile_clear
    \/ \E s \in LongInputs, t \in TileOrigins : rasterize_splat_tile(s, t[1], t[2])

SpecLong == InitTile /\ [][NextLong]_vars

-----------------------------------------------------------------------------
(* The driver (main): fb_init, malloc of the store, cam_init, the data load  *)
(* and then frames of cam_lookat, project_splats, sort_splats and            *)
(* rasterize_splats.                                                         *)

MAX_SPLATS == 2      \* slots of the store (50000 in the source)
MaxFrames == 2       \* frames rendered (main's max_frames)

(* Framebuffer devices: a tile-aligned 32bpp one, and a 16bpp one whose      *)
(* resolution is not a multiple of the tile size.                            *)
FbDevices ==
    { [xres |-> 64, yres |-> 32, bits_per_pixel |-> 32, line_length |-> 256],
      [xres |-> 72, yres |-> 40, bits_per_pixel |-> 16, line_length |-> 144] }

(* What the malloc'd, never initialised splats_2d array may hold: zero bits, *)
(* or the bits of a splat left there by an earlier user of the memory.       *)
Garbage2D ==
    { ZeroSplat2D,
      [sx_fp |-> 8, sy_fp |-> 8, depth |-> 3 * ONE,
       cov_a_fp |-> 16384, cov_c_fp |-> 16384, cov_b2_fp |-> 0,
       r |-> 255, g |-> 255, b |-> 255, opacity |-> 255,
       bbox_x0 |-> 7, bbox_y0 |-> 7, bbox_x1 |-> 9, bbox_y1 |-> 9] }

Iso(v) == <<v, 0, 0, v, 0, v>>

Splat3D(x, y, z, cov, r, g, b, alpha) ==
    [x |-> x, y |-> y, z |-> z, cov |-> cov, r |-> r, g |-> g, b |-> b, alpha |-> alpha]

(* Input splats (positions within the s7.8 range of the PNG format): a red   *)
(* and a blue one on the z axis and the two with their places exchanged, a   *)
(* green one farther up the axis, one with all-zero covariance at the        *)
(* origin, one that projects onto the top-left corner from the first eye,    *)
(* and a wider one towards the right and lower edges.                        *)
Red3D     == Splat3D(0, 0, ONE, Iso(205), 255, 0, 0, 255)
Blue3D    == Splat3D(0, 0, -ONE, Iso(205), 0, 0, 255, 255)
RedFar3D  == Splat3D(0, 0, -ONE, Iso(205), 255, 0, 0, 255)
BlueNear3D == Splat3D(0, 0, ONE, Iso(205), 0, 0, 255, 255)
Behind3D  == Splat3D(0, 0, 6 * ONE, Iso(205), 0, 255, 0, 255)
ZeroCov3D == Splat3D(0, 0, 0, Iso(0), 255, 255, 255, 255)
Corner3D  == Splat3D(-47104, -23224, -5 * ONE, Iso(205), 255, 255, 0, 255)
Edge3D    == Splat3D(8 * ONE, 3 * ONE, -2 * ONE, Iso(410), 255, 0, 255, 200)

(* The inputs of the data load. *)
Scenes ==
    { <<>>,
      <<Behind3D>>,
      <<Red3D, Blue3D>>,
      <<Blue3D, Red3D>>,
      <<RedFar3D, BlueNear3D>>,
      <<ZeroCov3D>>,
      <<Corner3D>>,
      <<Edge3D>>,
      <<Behind3D, Red3D>>,
      <<Red3D, Blue3D, Behind3D>> }

(* Eye positions of the orbiting camera: on the z axis, and turned to the    *)
(* left of it (target is the origin, no roll).                               *)
Eyes == { <<0, 0, 5 * ONE>>, <<-4 * ONE, 0, 3 * ONE>> }

(* store_add without the test for a full store. *)
StoreAddUnchecked(st, s) ==
    [count     |-> st.count + 1,
     splats_3d |-> [i \in 0 .. st.count |->
                       IF i = st.count THEN s ELSE st.splats_3d[i]]]

(* The value store_add returns. *)
StoreAddRet(st) == IF st.count >= MAX_SPLATS THEN -1 ELSE 0

(* store_add: the store afterwards. *)
StoreAdd(st, s) ==
    IF st.count >= MAX_SPLATS THEN st
    ELSE [count     |-> st.count + 1,
          splats_3d |-> [i \in 0 .. st.count |->
                            IF i = st.count THEN s ELSE st.splats_3d[i]]]

RECURSIVE LoadFrom(_, _, _)
(* The loader's loop: store_add of the input's splats k, k+1, ... while the  *)
(* loader's count, clamped to MAX_SPLATS, is not reached.                    *)
LoadFrom(st, scene, k) ==
    IF k > Len(scene) \/ k > MAX_SPLATS THEN st
    ELSE LoadFrom(StoreAdd(st, scene[k]), scene, k + 1)

InitFrame ==
    /\ CpuDriver
    /\ fb \in {FbInit(d) : d \in FbDevices}
    /\ pixels = ClearSurface(fb)
    /\ tile_buf = ZeroTile
    /\ count = 0
    /\ splats_3d = EmptyFn
    /\ splats_2d \in {[i \in 0 .. MAX_SPLATS - 1 |-> g] : g \in Garbage2D}
    /\ sort_idx = EmptyFn
    /\ cam = CamInit(fb.width, fb.height)
    /\ pc = "load"
    /\ frame = 0
    /\ call = NoCall
    /\ blend_log = <<>>

(* The data load of main: store_init, then store_add per input splat. *)
load_splats(scene) ==
    /\ pc = "load"
    /\ LET st == LoadFrom([count |-> 0, splats_3d |-> EmptyFn], scene, 1)
       IN  /\ count' = st.count
           /\ splats_3d' = st.splats_3d
    /\ pc' = "loop"
    /\ UNCHANGED <<splats_2d, sort_idx, cam, fb, pixels, tile_buf, frame, call,
                   blend_log,
                   running, use_fpga, serial_in, ctrl, desc, timeout>>

(* The loop condition taken to be always true. *)
WhileAlways(r) == TRUE

(* while (running) *)
WhileRunning(r) == r # 0

(* The head of the render loop and cam_lookat(&cam, eye, target, up). *)
cam_lookat(eye) ==
    /\ pc = "loop"
    /\ WhileRunning(running)
    /\ frame < MaxFrames
    /\ cam' = CamLookat(cam, eye, <<0, 0, 0>>, <<0, ONE, 0>>)
    /\ pc' = "camera"
    /\ UNCHANGED <<splats_3d, splats_2d, sort_idx, count, fb, pixels, tile_buf,
                   frame, call, blend_log,
                   running, use_fpga, serial_in, ctrl, desc, timeout>>

(* project_splats: the splats_2d array after the loop over the first n      *)
(* splats of the store.                                                      *)
ProjectSplats(s3, s2, n, c, f) ==
    [i \in DOMAIN s2 |-> IF i < n THEN ProjectSplat(s3[i], s2[i], c, f) ELSE s2[i]]

project_splats ==
    /\ pc = "camera"
    /\ splats_2d' = ProjectSplats(splats_3d, splats_2d, count, cam, fb)
    /\ pc' = "projected"
    /\ UNCHANGED <<splats_3d, sort_idx, count, cam, fb, pixels, tile_buf, frame,
                   call, blend_log,
                   running, use_fpga, serial_in, ctrl, desc, timeout>>

rasterize_splats ==
    /\ pc = "sorted"
    /\ \E out \in {RasterizeSplats(pixels, tile_buf, splats_2d, sort_idx, count, fb)} :
           /\ pixels' = out.pixels
           /\ tile_buf' = out.buf
           /\ blend_log' = out.log
    /\ pc' = "loop"
    /\ frame' = frame + 1
    /\ UNCHANGED <<splats_3d, splats_2d, sort_idx, count, cam, fb, call,
                   running, use_fpga, serial_in, ctrl, desc, timeout>>

NextFrame ==
    \/ \E scene \in Scenes : load_splats(scene)
    \/ \E eye \in Eyes : cam_lookat(eye)
    \/ project_splats
    \/ sort_splats
    \/ rasterize_splats

SpecFrame == InitFrame /\ [][NextFrame]_vars

-----------------------------------------------------------------------------
(* Claims about rasterize_splat_tile, under SpecTile *)

(* The step is one call of rasterize_splat_tile (recorded in call'). *)
IsTileCall == Len(blend_log') = Len(blend_log) + 1

(* The pixels the call recorded in rec visited, as <<index in tile_buf,      *)
(* d2_sum computed there>>.                                                  *)
Visited(rec) ==
    UNION {{<<(rec.clip.y0 + y - 1) * TILE_W + (rec.clip.x0 + x - 1), rec.d2[y][x]>> :
               x \in 1 .. Len(rec.d2[y])} : y \in 1 .. Len(rec.d2)}

C10_ZeroOpacityNoChange ==
    [][(IsTileCall /\ call'.s.opacity = 0) => tile_buf' = tile_buf]_vars

(* A splat of opacity 0 was rasterized over a coloured pixel inside its      *)
(* cutoff, where the LUT value read is not 0.                                *)
C10_Witness ==
    /\ call.s.opacity = 0
    /\ \E v \in Visited(call) :
          /\ ~PixelSkip(v[2])
          /\ LutRead(Shr(v[2], 10)) > 0
          /\ tile_buf[v[1]] # <<0, 0, 0, 0>>

(* The loop variables and d2_sum of the box pixel in row y, column x of the  *)
(* latest call, evaluated directly at the pixel's centre: dx_fp and dy_fp    *)
(* from the pixel's screen coordinates, the two products as the row start    *)
(* takes them ((int32_t)((int64_t)dx_fp * dx_fp)), d2_sum from these.        *)
DirectAt(rec, y, x) ==
    LET dx_fp == ((rec.tile_px + rec.clip.x0 + x - 1) * 16 + 8) - rec.s.sx_fp
        dy_fp == ((rec.tile_py + rec.clip.y0 + y - 1) * 16 + 8) - rec.s.sy_fp
        dx2   == WTrunc32(WMul(dx_fp, dx_fp))
        dxdy  == WTrunc32(WMul(dx_fp, dy_fp))
        dy2_s == WTrunc32(WShr(WMul(dy_fp, dy_fp), 4))
    IN  [raw |-> <<dx_fp, dx2, dxdy>>,
         d2  |-> D2Sum(rec.s, dx2, dxdy, WMul(rec.s.cov_c_fp, dy2_s))]

(* C23: at every pixel a call visits, the incrementally updated dx_fp,       *)
(* dx2_raw and dxdy_raw are those computed directly for the pixel's centre,  *)
(* and the d2_sum of the loop is the d2_sum evaluated directly there.        *)
C23_IncrementalIsDirect ==
    /\ Len(call.raw) = Len(call.d2)
    /\ \A y \in 1 .. Len(call.raw) :
          /\ Len(call.raw[y]) = Len(call.d2[y])
          /\ \A x \in 1 .. Len(call.raw[y]) :
                /\ call.raw[y][x] = DirectAt(call, y, x).raw
                /\ call.d2[y][x] = DirectAt(call, y, x).d2

(* A call over several rows and columns whose row crosses the splat's        *)
(* centre (dx_fp changes sign) below the centre's row, with a non-zero       *)
(* cross term.                                                               *)
C23_Witness ==
    /\ Len(call.raw) >= 3
    /\ Len(call.raw[1]) >= 3
    /\ call.s.cov_b2_fp # 0
    /\ \E y \in 1 .. Len(call.raw) :
          /\ call.raw[y][1][1] < 0
          /\ call.raw[y][Len(call.raw[y])][1] > 0
          /\ call.raw[y][Len(call.raw[y])][3] # 0
          /\ call.raw[y][Len(call.raw[y])][2] > 256
          /\ call.d2[y][Len(call.raw[y])] > 0

(* The exact 64-bit sum term_a + term_b + term_c of the box pixel in row y,   *)
(* column x of the latest call, from the exact dx_fp^2 and dx_fp * dy_fp.    *)
ExactSum(rec, y, x) ==
    LET dx_fp == rec.raw[y][x][1]
        dy_fp == ((rec.tile_py + rec.clip.y0 + y - 1) * 16 + 8) - rec.s.sy_fp
        dx2_s == WShr(WMul(dx_fp, dx_fp), 4)
        dxdy_s == WShr(WMul(dx_fp, dy_fp), 4)
        dy2_s == WShr(WMul(dy_fp, dy_fp), 4)
    IN  WAdd(WAdd(WMul(rec.s.cov_a_fp, WToInt(dx2_s)),
                  WMul(rec.s.cov_b2_fp, WToInt(dxdy_s))),
             WMul(rec.s.cov_c_fp, WToInt(dy2_s)))

(* Every channel of the accumulator buf is within u0.10, and none reaches    *)
(* an upper clamp of tile_flush, in either pixel format.                     *)
ChannelsInRange(buf) ==
    \A i \in TilePixels :
        /\ \A ch \in 1 .. 4 : buf[i][ch] \in 0 .. 1020
        /\ \A ch \in 1 .. 3 : Shr(buf[i][ch], 2) <= 255
        /\ Shr(buf[i][1], 5) <= 31
        /\ Shr(buf[i][2], 4) <= 63
        /\ Shr(buf[i][3], 5) <= 31

(* The 10-bit source values of the four channels of splat s. *)
Source10(s) == <<s.r * 4, s.g * 4, s.b * 4, 1020>>

(* C25: every channel of every accumulator pixel stays in [0, 1020], so the  *)
(* upper clamps of tile_flush never change a value; wherever a call blends,  *)
(* its weight w is in [1, 127] and each channel ends between its old value   *)
(* and the source value.                                                     *)
C25_AccumulatorInRange ==
    /\ ChannelsInRange(tile_buf)
    /\ [][/\ ChannelsInRange(tile_buf')
          /\ IsTileCall =>
                \A v \in Visited(call') :
                    LET w == PixelWeight(call'.s, v[2])
                    IN  w > 0 =>
                          /\ w \in 1 .. 127
                          /\ \A ch \in 1 .. 4 :
                                /\ tile_buf'[v[1]][ch] >=
                                       Min(tile_buf[v[1]][ch], Source10(call'.s)[ch])
                                /\ tile_buf'[v[1]][ch] <=
                                       Max(tile_buf[v[1]][ch], Source10(call'.s)[ch])]_vars

(* A second blend at the largest weight over a pixel an earlier call had     *)
(* lit, and a pixel blended at a small weight.                               *)
C25_Witness ==
    /\ Len(blend_log) = 2
    /\ \E v \in Visited(call) :
          /\ PixelWeight(call.s, v[2]) = 127
          /\ tile_buf[v[1]][4] > 1012
    /\ \E v \in Visited(call) :
          /\ PixelWeight(call.s, v[2]) \in 1 .. 8
          /\ tile_buf[v[1]][4] \in 1 .. 1011

(* C24, under SpecLong: at every pixel a call evaluates, dx_fp^2 fits int32_t and is         *)
(* dx2_raw, the exact sum term_a + term_b + term_c fits int32_t and is       *)
(* d2_sum, and a pixel that is blended has its exact sum in [0, 8.0).        *)
C24_NoWrap ==
    \A y \in 1 .. Len(call.raw) :
        \A x \in 1 .. Len(call.raw[y]) :
            /\ WFits32(WMul(call.raw[y][x][1], call.raw[y][x][1]))
            /\ call.raw[y][x][2] = call.raw[y][x][1] * call.raw[y][x][1]
            /\ WFits32(ExactSum(call, y, x))
            /\ call.d2[y][x] = WToInt(ExactSum(call, y, x))
            /\ PixelWeight(call.s, call.d2[y][x]) > 0 =>
                   /\ ~WLess(ExactSum(call, y, x), WOfInt(0))
                   /\ WLess(ExactSum(call, y, x), WOfInt(GAUSS_LUT_D2_CUTOFF_FP))

-----------------------------------------------------------------------------
(* Claims about a whole frame, under SpecFrame *)

(* rasterize_splats has finished a frame: splats_2d, sort_idx, blend_log and *)
(* pixels are those of the same frame.                                       *)
FrameDone == pc = "loop" /\ frame > 0

(* The surface entry of screen pixel (x, y). *)
SurfaceIndex(f, x, y) == y * StridePixels(f) + x

(* The red and blue fields of a flushed surface pixel v (8 bits each at      *)
(* 32bpp, 5 bits each at 16bpp), and the value of an opaque black one.       *)
RedOf(f, v) == IF f.bpp = 32 THEN (v - OPAQUE) \div 65536 ELSE v \div 2048
BlueOf(f, v) == IF f.bpp = 32 THEN (v - OPAQUE) % 256 ELSE v % 32
BlackPixel(f) == IF f.bpp = 32 THEN Pack32(<<0, 0, 0, 0>>) ELSE Pack16(<<0, 0, 0, 0>>)

(* The surface entries of the render area, width x height. *)
RenderArea(f) == {SurfaceIndex(f, x, y) : x \in 0 .. f.width - 1, y \in 0 .. f.height - 1}

(* The surface entry of the pixel that holds splat i's projected centre. *)
CentreOf(i) == SurfaceIndex(fb, splats_2d[i].sx_fp \div 16, splats_2d[i].sy_fp \div 16)

(* The splat indices rasterize_splat_tile was called with for the tile at    *)
(* (tpx, tpy), in call order.                                                *)
CallsOfTile(tpx, tpy) ==
    LET InTile(e) == e.tile = <<tpx, tpy>>
        calls     == SelectSeq(blend_log, InTile)
    IN  [k \in 1 .. Len(calls) |-> calls[k].idx]

(* The entries of sort_idx whose splat passes the quick reject for the tile, *)
(* in sort_idx order.                                                        *)
SortedOverlaps(tpx, tpy) ==
    LET Overlaps(i) == OverlapsTile(splats_2d[i], tpx, tpy)
    IN  SelectSeq([k \in 1 .. count |-> sort_idx[k - 1]], Overlaps)

(* Splats 0 and 1 are both admitted, project to the same centre, have        *)
(* different depth keys, and one is pure red and the other pure blue.        *)
RedBluePair ==
    /\ count = 2
    /\ ~IsCulled(0) /\ ~IsCulled(1)
    /\ splats_2d[0].sx_fp = splats_2d[1].sx_fp
    /\ splats_2d[0].sy_fp = splats_2d[1].sy_fp
    /\ KeyOf(0) # KeyOf(1)
    /\ \E i \in {0, 1} :
          /\ splats_2d[i].r = 255 /\ splats_2d[i].g = 0 /\ splats_2d[i].b = 0
          /\ splats_2d[1 - i].r = 0 /\ splats_2d[1 - i].g = 0 /\ splats_2d[1 - i].b = 255

(* The nearer of splats 0 and 1. *)
Nearer == IF splats_2d[0].depth < splats_2d[1].depth THEN 0 ELSE 1

(* C5: in every tile rasterize_splats calls rasterize_splat_tile for the     *)
(* splats that overlap the tile in exactly sort_idx order; of two admitted   *)
(* splats with different depth keys the farther one is blended first, and of *)
(* a red and a blue splat on the same centre the nearer one dominates the    *)
(* centre pixel (R > B when red is nearer, B > R when blue is).              *)
C5_BlendInSortOrder ==
    FrameDone =>
        /\ \A tile_x \in 0 .. fb.tiles_x - 1, tile_y \in 0 .. fb.tiles_y - 1 :
              CallsOfTile(tile_x * TILE_W, tile_y * TILE_H)
                  = SortedOverlaps(tile_x * TILE_W, tile_y * TILE_H)
        /\ \A j \in 1 .. Len(blend_log), k \in 1 .. Len(blend_log) :
              ( /\ j < k
                /\ blend_log[j].tile = blend_log[k].tile
                /\ ~IsCulled(blend_log[j].idx) /\ ~IsCulled(blend_log[k].idx)
                /\ KeyOf(blend_log[j].idx) # KeyOf(blend_log[k].idx) )
              => splats_2d[blend_log[j].idx].depth > splats_2d[blend_log[k].idx].depth
        /\ RedBluePair =>
              IF splats_2d[Nearer].r = 255
              THEN RedOf(fb, pixels[CentreOf(0)]) > BlueOf(fb, pixels[CentreOf(0)])
              ELSE BlueOf(fb, pixels[CentreOf(0)]) > RedOf(fb, pixels[CentreOf(0)])

(* A frame of a red splat at depth 4 (index 0) and a blue one at depth 6     *)
(* (index 1), blended blue first.                                            *)
C5_Witness ==
    /\ FrameDone
    /\ RedBluePair
    /\ Nearer = 0
    /\ splats_2d[0].r = 255
    /\ splats_2d[0].depth = 4 * ONE /\ splats_2d[1].depth = 6 * ONE
    /\ \E j \in 1 .. Len(blend_log), k \in 1 .. Len(blend_log) :
          /\ j < k
          /\ blend_log[j].tile = blend_log[k].tile
          /\ blend_log[j].idx = 1 /\ blend_log[k].idx = 0
          /\ blend_log[j].changed /\ blend_log[k].changed

(* Camera-space z of input splat i. *)
CamZ(i) ==
    FMul(cam.view[2], splats_3d[i].x) + FMul(cam.view[6], splats_3d[i].y)
        + FMul(cam.view[10], splats_3d[i].z) + cam.view[14]

(* C6: a splat culled in the current frame changes no tile-accumulator entry *)
(* in any rasterize_splat_tile call of the frame, and a scene whose only     *)
(* splat is behind the camera renders every pixel of the render area opaque  *)
(* black.                                                                    *)
C6_CulledNoEffect ==
    FrameDone =>
        /\ \A k \in 1 .. Len(blend_log) :
              IsCulled(blend_log[k].idx) => ~blend_log[k].changed
        /\ (count = 1 /\ CamZ(0) >= FNear) =>
              \A p \in RenderArea(fb) : pixels[p] = BlackPixel(fb)

(* The surface rasterize_splats renders from the empty store. *)
EmptyRender(f) == RasterizeSplats(ClearSurface(f), ZeroTile, EmptyFn, EmptyFn, 0, f).pixels

(* The store holds one splat, with all-zero 3D covariance, in front of the   *)
(* near plane; the camera looks at it.                                       *)
ZeroCovScene ==
    /\ count = 1
    /\ splats_3d[0].cov = <<0, 0, 0, 0, 0, 0>>
    /\ splats_3d[0].x = 0 /\ splats_3d[0].y = 0 /\ splats_3d[0].z = 0
    /\ CamZ(0) < FNear

Projected == pc \in {"projected", "sorted"} \/ (frame > 0 /\ pc \in {"loop", "camera"})

(* C8: after project_splats every splat below count either has the sentinel  *)
(* depth, or has an ordered bbox inside the surface and a finite depth > 0.  *)
C8_BBoxInsideSurface ==
    Projected =>
        \A i \in 0 .. count - 1 :
            \/ splats_2d[i].depth = F1e30
            \/ /\ splats_2d[i].bbox_x0 <= splats_2d[i].bbox_x1
               /\ splats_2d[i].bbox_y0 <= splats_2d[i].bbox_y1
               /\ 0 <= splats_2d[i].bbox_x0 /\ splats_2d[i].bbox_x1 < fb.width
               /\ 0 <= splats_2d[i].bbox_y0 /\ splats_2d[i].bbox_y1 < fb.height
               /\ 0 < splats_2d[i].depth /\ splats_2d[i].depth < F1e20

(* An admitted splat whose bbox was clamped at the right and lower edges. *)
C8_Witness ==
    /\ pc = "projected"
    /\ \E i \in 0 .. count - 1 :
          /\ ~IsCulled(i)
          /\ splats_2d[i].bbox_x1 = fb.width - 1
          /\ splats_2d[i].bbox_y1 = fb.height - 1
          /\ splats_2d[i].sx_fp + 16 * 2 > 16 * fb.width

-----------------------------------------------------------------------------
(* rasterize_splat_tile on a cleared tile, for a splat of full opacity whose *)
(* centre is the centre of pixel (5, 5), over all 8-bit colour values.       *)

(* A projected splat centred on the centre of pixel (5, 5) of tile (0, 0):   *)
(* sx_fp = sy_fp = 5 * 16 + 8.                                               *)
CentreSplat(v) ==
    [sx_fp |-> 88, sy_fp |-> 88, depth |-> 4 * ONE,
     cov_a_fp |-> 16384, cov_c_fp |-> 16384, cov_b2_fp |-> 0,
     r |-> v, g |-> 255 - v, b |-> v \div 2, opacity |-> 255,
     bbox_x0 |-> 3, bbox_y0 |-> 3, bbox_x1 |-> 7, bbox_y1 |-> 7]

(* The tile_buf entry of pixel (5, 5). *)
CentrePixel == 5 * TILE_W + 5

NextCentre ==
    \E v \in 0 .. 255 : blend_log = <<>> /\ rasterize_splat_tile(CentreSplat(v), 0, 0)

SpecCentre == InitTile /\ [][NextCentre]_vars

(* The d2_sum the recorded call computed at pixel (5, 5). *)
CentreD2 == call.d2[5 - call.clip.y0 + 1][5 - call.clip.x0 + 1]

(* C11: after one splat of opacity 255 is blended into the zeroed            *)
(* accumulator, the pixel under its centre (d2_sum = 0, LUT index 0) holds   *)
(* in each colour channel at least 99% of the source colour << 2.            *)
C11_CentreAttains99 ==
    (Len(blend_log) = 1 /\ call.s.opacity = 255 /\ CentreD2 = 0) =>
        /\ 100 * tile_buf[CentrePixel][1] >= 99 * (call.s.r * 4)
        /\ 100 * tile_buf[CentrePixel][2] >= 99 * (call.s.g * 4)
        /\ 100 * tile_buf[CentrePixel][3] >= 99 * (call.s.b * 4)

-----------------------------------------------------------------------------
(* Claims about the tiling of rasterize_splats, under SpecFrame *)

(* Tile sizes of other builds (TILE_W x TILE_H is 32 x 32 in the source). *)
TileSizeChoices == { <<16, 16>>, <<64, 32>>, <<32, 8>> }

(* The choices that divide the surface. *)
TileSizes(f) == {t \in TileSizeChoices : f.width % t[1] = 0 /\ f.height % t[2] = 0}

(* The framebuf_t fb_init produces for the same surface in a build with      *)
(* tiles of tw x th pixels.                                                  *)
FbOf(f, tw, th) == [f EXCEPT !.tiles_x = f.width \div tw, !.tiles_y = f.height \div th]

(* The surface a build with tiles of tw x th pixels renders from the         *)
(* current splats_2d and sort_idx.                                           *)
RenderWith(tw, th) ==
    RasterizeSplatsOf(tw, th, pixels, ZeroTileOf(tw, th), splats_2d, sort_idx, count,
                      FbOf(fb, tw, th)).pixels

(* C12: for the splats_2d, sort_idx and surface of a finished frame,         *)
(* rasterize_splats produces the same pixels with every tile size that       *)
(* divides the surface as with TILE_W x TILE_H.                              *)
C12_TileSizeIndependent ==
    FrameDone => \A t \in TileSizes(fb) : RenderWith(t[1], t[2]) = pixels

(* A frame in which an admitted splat changed the accumulators of two tiles, *)
(* and all the tile sizes divide the surface.                                *)
C12_Witness ==
    /\ FrameDone
    /\ TileSizes(fb) = TileSizeChoices
    /\ \E j \in 1 .. Len(blend_log), k \in 1 .. Len(blend_log) :
          /\ blend_log[j].idx = blend_log[k].idx
          /\ blend_log[j].tile # blend_log[k].tile
          /\ blend_log[j].changed /\ blend_log[k].changed
          /\ ~IsCulled(blend_log[j].idx)

-----------------------------------------------------------------------------
(* Claims about repeating a frame, under SpecFrame *)

(* The surface after rasterize_splats, given the splats_2d array p2 that     *)
(* project_splats left.                                                      *)
RenderProjected(p2) ==
    RasterizeSplats(pixels, tile_buf, p2, SortedIdx(p2, count, sort_idx), count, fb).pixels

(* The surface after one more frame from the current state with the same     *)
(* eye, target and up: cam_lookat, project_splats, sort_splats and           *)
(* rasterize_splats.                                                         *)
FrameAgain ==
    RenderProjected(ProjectSplats(splats_3d, splats_2d, count,
                                  CamLookat(cam, cam.pos, <<0, 0, 0>>, <<0, ONE, 0>>), fb))

(* C13: after a frame, running the frame again with the same store, camera   *)
(* and surface leaves the surface pixels as they are.                        *)
C13_FrameIdempotent == FrameDone => FrameAgain = pixels

(* A finished frame whose calls changed the accumulators of two tiles and   *)
(* that lit a pixel of the surface.                                          *)
C13_Witness ==
    /\ FrameDone
    /\ \E j \in 1 .. Len(blend_log), k \in 1 .. Len(blend_log) :
          /\ blend_log[j].tile # blend_log[k].tile
          /\ blend_log[j].changed /\ blend_log[k].changed
    /\ \E p \in RenderArea(fb) : pixels[p] # BlackPixel(fb)

-----------------------------------------------------------------------------
(* Frames after different earlier frames: the store's splats_2d array starts *)
(* zeroed, so what a frame finds in it was left by the frames before.        *)

InitHistory ==
    /\ InitFrame
    /\ splats_2d = [i \in 0 .. MAX_SPLATS - 1 |-> ZeroSplat2D]

SpecHistory == InitHistory /\ [][NextFrame]_vars

(* The surface of the current frame (same store, camera and surface) in the  *)
(* run whose one earlier frame was taken from eye.                           *)
FrameAfter(eye) ==
    RenderProjected(
        ProjectSplats(splats_3d,
            ProjectSplats(splats_3d, [i \in 0 .. MAX_SPLATS - 1 |-> ZeroSplat2D], count,
                          CamLookat(cam, eye, <<0, 0, 0>>, <<0, ONE, 0>>), fb),
            count, cam, fb))

(* C22: the surface of a frame is the same in every run that reaches the     *)
(* frame's store, camera and surface, whichever camera pose the earlier      *)
(* frame of the run had.                                                     *)
C22_HistoryIndependent ==
    FrameDone => \A eye \in Eyes : pixels = FrameAfter(eye)

-----------------------------------------------------------------------------
(* tile_flush on its own: flushes of the tile buffer into tiles of a surface *)
(* that is blank (after fb_init) or holds an earlier frame.                  *)

MaxFlushes == 2      \* tile_flush calls per behaviour

(* The devices of the driver and a 16bpp one with two rows of tiles. *)
FlushDevices ==
    FbDevices \cup { [xres |-> 64, yres |-> 64, bits_per_pixel |-> 16, line_length |-> 128] }

(* Accumulator contents: cleared, saturated, a pattern over the whole range  *)
(* 0 .. 1020 of each channel, and the pattern with the A channel zero.       *)
FlushBuffers ==
    { ZeroTile,
      [i \in TilePixels |-> <<1020, 1020, 1020, 1020>>],
      [i \in TilePixels |-> <<(i * 37) % 1021, (i * 101) % 1021, (i * 7) % 1021, 1020>>],
      [i \in TilePixels |-> <<(i * 37) % 1021, (i * 101) % 1021, (i * 7) % 1021, 0>>] }

(* The surface after an earlier frame that painted the render area magenta;  *)
(* outside the render area it is as fb_init left it.                         *)
PaintedSurface(f) ==
    LET old == IF f.bpp = 32 THEN Pack32(<<1020, 0, 1020, 1020>>)
               ELSE Pack16(<<1020, 0, 1020, 1020>>)
    IN  [i \in DOMAIN ClearSurface(f) |->
            IF i % StridePixels(f) < f.width /\ i \div StridePixels(f) < f.height
            THEN old ELSE 0]

InitFlush ==
    /\ CpuDriver
    /\ fb \in {FbInit(d) : d \in FlushDevices}
    /\ pixels \in {ClearSurface(fb), PaintedSurface(fb)}
    /\ tile_buf \in FlushBuffers
    /\ blend_log = <<>>
    /\ pc = "flush"
    /\ call = NoCall
    /\ count = 0
    /\ splats_3d = EmptyFn
    /\ splats_2d = EmptyFn
    /\ sort_idx = EmptyFn
    /\ cam = 0
    /\ frame = 0

(* tile_flush(fb, tile_x, tile_y); blend_log records the tiles flushed. *)
tile_flush(tile_x, tile_y) ==
    /\ pc = "flush"
    /\ Len(blend_log) < MaxFlushes
    /\ pixels' = TileFlush(pixels, tile_buf, fb, tile_x, tile_y)
    /\ blend_log' = Append(blend_log, <<tile_x, tile_y>>)
    /\ UNCHANGED <<splats_3d, splats_2d, sort_idx, count, cam, fb, tile_buf, pc,
                   frame, call,
                   running, use_fpga, serial_in, ctrl, desc, timeout>>

NextFlush ==
    \E tile_x \in 0 .. fb.tiles_x - 1, tile_y \in 0 .. fb.tiles_y - 1 :
        tile_flush(tile_x, tile_y)

SpecFlush == InitFlush /\ [][NextFlush]_vars

(* The step is a tile_flush call; its tile is the last entry of blend_log'. *)
IsFlush == pc = "flush" /\ Len(blend_log') = Len(blend_log) + 1
FlushedTile == blend_log'[Len(blend_log')]

(* Pixels per surface line: the line length in bytes over the pixel size. *)
LinePixels(f) == (f.stride * 8) \div f.bpp

(* The surface entries of the rectangle of tile t, clipped to the surface    *)
(* height.                                                                   *)
TileRect(f, t) ==
    {y * LinePixels(f) + x :
        x \in t[1] * TILE_W .. (t[1] + 1) * TILE_W - 1,
        y \in t[2] * TILE_H .. Min((t[2] + 1) * TILE_H, f.height) - 1}

(* The accumulator pixel that tile t holds for surface entry i. *)
AccOf(f, t, i) ==
    tile_buf[((i \div LinePixels(f)) - t[2] * TILE_H) * TILE_W
             + ((i % LinePixels(f)) - t[1] * TILE_W)]

(* C14: every surface pixel tile_flush writes is, on a 32-bit surface,       *)
(* 0xFF000000 | (R8 << 16) | (G8 << 8) | B8 with X8 = min(X >> 2, 255), and  *)
(* on a 16-bit surface (R5 << 11) | (G6 << 5) | B5 with R5 = min(R >> 5, 31),*)
(* G6 = min(G >> 4, 63), B5 = min(B >> 5, 31), of the accumulator pixel's    *)
(* R, G, B; A is not used, and a zero accumulator pixel gives opaque black   *)
(* (0xFF000000, or 0 in RGB565).                                             *)
C14_FlushPacking ==
    [][IsFlush =>
          \A i \in TileRect(fb, FlushedTile) :
              LET acc == AccOf(fb, FlushedTile, i)
                  R   == acc[1]
                  G   == acc[2]
                  B   == acc[3]
              IN  /\ fb.bpp = 32 =>
                        pixels'[i] = -16777216 + Min(R \div 4, 255) * 65536
                                       + Min(G \div 4, 255) * 256 + Min(B \div 4, 255)
                  /\ fb.bpp = 16 =>
                        pixels'[i] = Min(R \div 32, 31) * 2048 + Min(G \div 16, 63) * 32
                                       + Min(B \div 32, 31)
                  /\ (R = 0 /\ G = 0 /\ B = 0) =>
                        pixels'[i] = IF fb.bpp = 32 THEN -16777216 ELSE 0]_vars

(* A 16-bit surface after a flush of the pattern buffer, with a pixel whose  *)
(* three fields are all non-zero and below their maxima.                     *)
C14_Witness ==
    /\ pc = "flush" /\ Len(blend_log) = 1
    /\ fb.bpp = 16
    /\ \E i \in TileRect(fb, blend_log[1]) :
          /\ pixels[i] \div 2048 \in 1 .. 30
          /\ (pixels[i] \div 32) % 64 \in 1 .. 62
          /\ pixels[i] % 32 \in 1 .. 30

(* C15: tile_flush(tile_x, tile_y) leaves every surface entry outside the    *)
(* tile's rectangle (clipped to the surface height) unchanged and writes     *)
(* every entry inside it from the accumulator, whatever the surface held;    *)
(* the rectangles of different tiles are disjoint and together are the       *)
(* render area, so flushing every tile writes each of its pixels once.       *)
C15_FlushWritesOwnTile ==
    [][IsFlush =>
          /\ \A i \in DOMAIN pixels \ TileRect(fb, FlushedTile) : pixels'[i] = pixels[i]
          /\ \A i \in TileRect(fb, FlushedTile) :
                pixels'[i] = IF fb.bpp = 32 THEN Pack32(AccOf(fb, FlushedTile, i))
                             ELSE Pack16(AccOf(fb, FlushedTile, i))
          /\ \A tile_x \in 0 .. fb.tiles_x - 1, tile_y \in 0 .. fb.tiles_y - 1 :
                <<tile_x, tile_y>> # FlushedTile =>
                    TileRect(fb, <<tile_x, tile_y>>) \cap TileRect(fb, FlushedTile) = {}
          /\ UNION {TileRect(fb, <<tile_x, tile_y>>) :
                       tile_x \in 0 .. fb.tiles_x - 1, tile_y \in 0 .. fb.tiles_y - 1}
                = {y * LinePixels(fb) + x : x \in 0 .. fb.width - 1, y \in 0 .. fb.height - 1}]_vars

(* A painted surface whose stride is wider than the render area, after the   *)
(* flushes of two different tiles: no painted pixel is left in either tile,  *)
(* and the entries beyond the render width are untouched.                    *)
C15_Witness ==
    /\ pc = "flush" /\ Len(blend_log) = 2
    /\ blend_log[1] # blend_log[2]
    /\ LinePixels(fb) > fb.width
    /\ tile_buf # ZeroTile
    /\ \A i \in TileRect(fb, blend_log[1]) \cup TileRect(fb, blend_log[2]) :
          pixels[i] # Pack16(<<1020, 0, 1020, 1020>>)
    /\ pixels[fb.width] = 0

-----------------------------------------------------------------------------
(* The splat store on its own: any sequence of store_init and store_add.     *)

(* The splats handed to store_add. *)
StoreInputs == {Red3D, Blue3D, RedFar3D, BlueNear3D, Behind3D, ZeroCov3D, Corner3D, Edge3D}

InitStore ==
    /\ CpuDriver
    /\ count = 0
    /\ splats_3d = EmptyFn
    /\ call = NoCall
    /\ pc = "store"
    /\ splats_2d = EmptyFn
    /\ sort_idx = EmptyFn
    /\ cam = 0
    /\ fb = 0
    /\ pixels = EmptyFn
    /\ tile_buf = EmptyFn
    /\ frame = 0
    /\ blend_log = <<>>

(* store_init(store) *)
store_init ==
    /\ pc = "store"
    /\ count' = 0
    /\ splats_3d' = EmptyFn
    /\ call' = [fn |-> "store_init"]
    /\ UNCHANGED <<splats_2d, sort_idx, cam, fb, pixels, tile_buf, pc, frame, blend_log,
                   running, use_fpga, serial_in, ctrl, desc, timeout>>

(* store_add(store, splat); call records the argument and the return value. *)
store_add(splat) ==
    /\ pc = "store"
    /\ \E st \in {StoreAdd([count |-> count, splats_3d |-> splats_3d], splat)} :
          /\ count' = st.count
          /\ splats_3d' = st.splats_3d
    /\ call' = [fn |-> "store_add", splat |-> splat,
                ret |-> StoreAddRet([count |-> count, splats_3d |-> splats_3d])]
    /\ UNCHANGED <<splats_2d, sort_idx, cam, fb, pixels, tile_buf, pc, frame, blend_log,
                   running, use_fpga, serial_in, ctrl, desc, timeout>>

NextStore ==
    \/ store_init
    \/ \E splat \in StoreInputs : store_add(splat)

SpecStore == InitStore /\ [][NextStore]_vars

(* C16: store_add returns 0 exactly when count < MAX_SPLATS; it then stores  *)
(* the splat at index count, adds 1 to count and keeps the earlier entries;  *)
(* on a full store it returns -1 and changes nothing; and count stays in     *)
(* 0 .. MAX_SPLATS over any sequence of store_init and store_add.            *)
C16_StoreAdd ==
    /\ [](count \in 0 .. MAX_SPLATS)
    /\ [][(pc = "store" /\ call'.fn = "store_add") =>
             /\ call'.ret \in {0, -1}
             /\ call'.ret = 0 <=> count < MAX_SPLATS
             /\ call'.ret = 0 =>
                   /\ count' = count + 1
                   /\ splats_3d'[count] = call'.splat
                   /\ \A i \in 0 .. count - 1 : splats_3d'[i] = splats_3d[i]
             /\ call'.ret = -1 =>
                   /\ count' = count
                   /\ splats_3d' = splats_3d]_vars

(* A full store of two different splats on which a store_add of a third      *)
(* splat has just failed.                                                    *)
C16_Witness ==
    /\ pc = "store"
    /\ call # NoCall /\ call.fn = "store_add" /\ call.ret = -1
    /\ count = MAX_SPLATS
    /\ splats_3d[0] # splats_3d[1]
    /\ \A i \in 0 .. count - 1 : splats_3d[i] # call.splat

-----------------------------------------------------------------------------
(* The serial data load of main: serdes_recv_splats and, when it fails,      *)
(* generate_test_splats; then the render loop.                               *)

SYNC_WORD == 262143        \* 0x3FFFF
SYNC_ATTEMPTS == 1000
WORDS_PER_SPLAT == 11      \* uint8_t pkt[33], 3 bytes per 18-bit word

(* unpack18: three bytes, 6 low bits each, least significant first. *)
unpack18(p) == (p[1] % 64) + (p[2] % 64) * 64 + (p[3] % 64) * 4096

(* The 18-bit words serial_read_exact delivers three bytes at a time: a read *)
(* that finds fewer than three bytes fails, so a trailing partial word is    *)
(* never delivered.                                                          *)
UnpackWords(bytes) ==
    [i \in 1 .. Len(bytes) \div 3 |-> unpack18(SubSeq(bytes, 3 * i - 2, 3 * i))]

(* s1_16_to_float's sv: the 18-bit word sign-extended from bit 17. *)
S1_16Unsigned(v) == v

S1_16Signed(v) == IF v >= 131072 THEN v - 262144 ELSE v

(* s1_16_to_float: sv / 65536.0f.  The quotient is exact in float (|sv| <    *)
(* 2^17), so the decoded position is sv in units of 2^-16; on the model's    *)
(* coarser grid it is floored.                                               *)
S1_16ToFloat(v) == S1_16Signed(v) \div (65536 \div ONE)

(* u0_18_to_float: the word over 262144. *)
U0_18ToFloat(v) == v \div (262144 \div ONE)

(* The 6-bit colour field c scaled to 8 bits: (c << 2) | (c >> 4). *)
Scale6To8(c) == c * 4 + c \div 16

(* The fields serdes_recv_splats decodes from the 11 words of a packet, as   *)
(* the exact values the float fields hold: positions in units of 2^-16,     *)
(* covariance terms in units of 2^-18 (v / 262144.0f is exact as well).      *)
DecodeExact(w) ==
    [x |-> S1_16Signed(w[1]), y |-> S1_16Signed(w[2]), z |-> S1_16Signed(w[3]),
     cov |-> [j \in 1 .. 6 |-> w[3 + j]],
     r |-> Scale6To8((w[10] \div 4096) % 64),
     g |-> Scale6To8((w[10] \div 64) % 64),
     b |-> Scale6To8(w[10] % 64),
     alpha |-> w[11] % 256]

(* The splat_3d_t serdes_recv_splats decodes from the 11 words of a packet. *)
DecodeSplat(w) ==
    [x |-> S1_16ToFloat(w[1]), y |-> S1_16ToFloat(w[2]), z |-> S1_16ToFloat(w[3]),
     cov |-> [j \in 1 .. 6 |-> U0_18ToFloat(w[3 + j])],
     r |-> Scale6To8((w[10] \div 4096) % 64),
     g |-> Scale6To8((w[10] \div 64) % 64),
     b |-> Scale6To8(w[10] % 64),
     alpha |-> w[11] % 256]

RECURSIVE RecvRecords(_, _, _, _)
(* The packet loop of serdes_recv_splats from packet i of n: a short read    *)
(* returns -1, the end of the loop returns store->count.                     *)
RecvRecords(st, words, n, i) ==
    IF i >= n THEN [ret |-> st.count, st |-> st, rest |-> words]
    ELSE IF Len(words) < WORDS_PER_SPLAT THEN [ret |-> -1, st |-> st, rest |-> <<>>]
    ELSE RecvRecords(StoreAdd(st, DecodeSplat(SubSeq(words, 1, WORDS_PER_SPLAT))),
                     SubSeq(words, WORDS_PER_SPLAT + 1, Len(words)), n, i + 1)

(* serdes_recv_splats after the sync hunt: the count word, store_init and    *)
(* the packet loop.                                                          *)
RecvCount(st, words) ==
    IF words = <<>> THEN [ret |-> -1, st |-> st, rest |-> <<>>]
    ELSE IF words[1] <= 0 \/ words[1] > MAX_SPLATS
         THEN [ret |-> -1, st |-> st, rest |-> Tail(words)]
    ELSE RecvRecords([count |-> 0, splats_3d |-> EmptyFn], Tail(words), words[1], 0)

(* serdes_recv_splats: its return value, the store and the unread input.     *)
(* The sync hunt reads words up to the first sync word; the read that finds  *)
(* no word and the read after SYNC_ATTEMPTS reads return -1.                 *)
SerdesRecvSplats(st, words) ==
    LET at == {i \in 1 .. Len(words) : words[i] = SYNC_WORD}
        k  == IF at = {} THEN Len(words) + 1
              ELSE CHOOSE i \in at : \A j \in at : i <= j
    IN  IF k > SYNC_ATTEMPTS
        THEN [ret |-> -1, st |-> st,
              rest |-> SubSeq(words, SYNC_ATTEMPTS + 2, Len(words))]
        ELSE IF k > Len(words) THEN [ret |-> -1, st |-> st, rest |-> <<>>]
        ELSE RecvCount(st, SubSeq(words, k + 1, Len(words)))

(* The splats generate_test_splats computes after srand(42), in order. *)
TestSplats ==
    << Splat3D(6659, 1421, -2463, Iso(55), 225, 148, 91, 217),
       Splat3D(-7, 7504, 2130, Iso(45), 127, 237, 159, 248),
       Splat3D(-3134, 3554, 2967, Iso(31), 82, 180, 171, 201),
       Splat3D(246, -3671, -5619, Iso(66), 131, 74, 45, 189) >>

RECURSIVE GenerateTestSplats(_, _, _)
(* generate_test_splats from loop index i: store_add of test splat i while   *)
(* i < n and i < MAX_SPLATS.                                                 *)
GenerateTestSplats(st, n, i) ==
    IF i >= n \/ i >= MAX_SPLATS THEN st
    ELSE GenerateTestSplats(StoreAdd(st, TestSplats[i + 1]), n, i + 1)

(* The sender's side of the wire format (the frame format comment of the    *)
(* SerDes section): an 18-bit word as three bytes [5:0] [11:6] [17:12].      *)
Pack18(w) == <<w % 64, (w \div 64) % 64, (w \div 4096) % 64>>

PackWords(ws) ==
    [i \in 1 .. 3 * Len(ws) |-> Pack18(ws[((i - 1) \div 3) + 1])[((i - 1) % 3) + 1]]

(* A packet: position, isotropic covariance, colour word, opacity word. *)
Packet(x, y, z, c, rgb, a) == <<x, y, z, c, 0, 0, c, 0, c, rgb, a>>

RedPacket  == Packet(0, 0, 65536, 13120, 258048, 255)
BluePacket == Packet(0, 0, 196608, 13120, 63, 511)

(* Input streams, in words: silence, noise without sync, the end of the     *)
(* input after the sync word, counts out of range, the end of the input     *)
(* after one packet of two and inside the second packet, complete           *)
(* transfers, and a sync word that comes after more than SYNC_ATTEMPTS       *)
(* words.                                                                    *)
WordStreams ==
    { <<>>,
      <<1, 2>>,
      <<SYNC_WORD>>,
      <<SYNC_WORD, 0>>,
      <<SYNC_WORD, MAX_SPLATS + 1>>,
      <<SYNC_WORD, 2>> \o RedPacket,
      <<SYNC_WORD, 2>> \o BluePacket \o SubSeq(RedPacket, 1, 5),
      <<SYNC_WORD, 1>> \o RedPacket,
      <<7, SYNC_WORD, 2>> \o RedPacket \o BluePacket,
      [i \in 1 .. SYNC_ATTEMPTS |-> 0] \o <<SYNC_WORD, 1>> \o RedPacket }

(* The byte streams: the word streams as sent, a transfer that ends inside  *)
(* a word, and a transfer whose bytes carry framing bits above the 6 data   *)
(* bits.                                                                     *)
SerialStreams ==
    {PackWords(ws) : ws \in WordStreams}
    \cup { PackWords(<<SYNC_WORD, 1>> \o RedPacket) \o <<63, 63>>,
           PackWords(<<SYNC_WORD, 2>> \o RedPacket) \o <<1>>,
           [i \in 1 .. 39 |-> PackWords(<<SYNC_WORD, 1>> \o BluePacket)[i] + 64] }

(* splat_count as the command line can set it. *)
SplatCounts == 0 .. MAX_SPLATS + 1

InitSerial ==
    /\ running = 1
    /\ use_fpga = 0
    /\ serial_in \in SerialStreams
    /\ ctrl = <<0, 0, 0, 0>>
    /\ desc = <<>>
    /\ timeout = 0
    /\ fb = FbInit(CHOOSE d \in FbDevices : d.bits_per_pixel = 32)
    /\ pixels = ClearSurface(fb)
    /\ tile_buf = ZeroTile
    /\ count = 0
    /\ splats_3d = EmptyFn
    /\ splats_2d = [i \in 0 .. MAX_SPLATS - 1 |-> ZeroSplat2D]
    /\ sort_idx = EmptyFn
    /\ cam = CamInit(fb.width, fb.height)
    /\ pc = "serial"
    /\ frame = 0
    /\ call = NoCall
    /\ blend_log = <<>>

(* The packets of a successful receive, in order, as exact field values:     *)
(* the last ret packets of the words read.                                   *)
ReceivedExact(words, out) ==
    LET used == Len(words) - Len(out.rest)
        n == IF out.ret < 0 THEN 0 ELSE out.ret
    IN  [i \in 1 .. n |->
            DecodeExact(SubSeq(words, used - WORDS_PER_SPLAT * (n - i + 1) + 1,
                               used - WORDS_PER_SPLAT * (n - i)))]

(* The bytes left unread after a receive: a failed read consumes what was    *)
(* there.                                                                    *)
UnreadBytes(bytes, words, out) ==
    IF out.rest = <<>> THEN <<>>
    ELSE SubSeq(bytes, 3 * (Len(words) - Len(out.rest)) + 1, Len(bytes))

(* main: serdes_recv_splats(serdes_fd, store); call records its return and   *)
(* the exact values of the records it decoded.                               *)
serdes_recv_splats ==
    /\ pc = "serial"
    /\ \E words \in {UnpackWords(serial_in)} :
       \E out \in {SerdesRecvSplats([count |-> count, splats_3d |-> splats_3d], words)} :
          /\ count' = out.st.count
          /\ splats_3d' = out.st.splats_3d
          /\ serial_in' = UnreadBytes(serial_in, words, out)
          /\ call' = [fn |-> "serdes_recv_splats", ret |-> out.ret,
                      exact |-> ReceivedExact(words, out)]
          /\ pc' = IF out.ret < 0 THEN "recv_failed" ELSE "loop"
    /\ UNCHANGED <<splats_2d, sort_idx, cam, fb, pixels, tile_buf, frame, blend_log,
                   running, use_fpga, ctrl, desc, timeout>>

(* main: generate_test_splats(store, splat_count) after a failed receive. *)
generate_test_splats(splat_count) ==
    /\ pc = "recv_failed"
    /\ \E st \in {GenerateTestSplats([count |-> count, splats_3d |-> splats_3d],
                                     splat_count, 0)} :
          /\ count' = st.count
          /\ splats_3d' = st.splats_3d
    /\ call' = [fn |-> "generate_test_splats", splat_count |-> splat_count]
    /\ pc' = "loop"
    /\ UNCHANGED <<splats_2d, sort_idx, cam, fb, pixels, tile_buf, frame, blend_log,
                   running, use_fpga, serial_in, ctrl, desc, timeout>>

NextSerial ==
    \/ serdes_recv_splats
    \/ \E splat_count \in SplatCounts : generate_test_splats(splat_count)
    \/ \E eye \in Eyes : cam_lookat(eye)
    \/ project_splats
    \/ sort_splats
    \/ rasterize_splats

SpecSerial == InitSerial /\ [][NextSerial]_vars

(* The render loop runs on the fallback data: the receive failed and         *)
(* generate_test_splats has run.                                             *)
FellBack ==
    pc \notin {"serial", "recv_failed"} /\ call.fn = "generate_test_splats"

(* C17: after a failed serial receive the store the frames are rendered from *)
(* holds exactly the generated test splats, min(splat_count, MAX_SPLATS) of  *)
(* them, and no record decoded from the failed stream.                       *)
C17_FallbackOnlyGenerated ==
    FellBack =>
        /\ count = Min(call.splat_count, MAX_SPLATS)
        /\ \A i \in 0 .. count - 1 : splats_3d[i] = TestSplats[i + 1]

-----------------------------------------------------------------------------
(* The serial round trip: a scene is sent in the wire format and received by *)
(* serdes_recv_splats.  The sender is not part of the sources; it is the     *)
(* frame format of the SerDes section applied to a scene whose positions     *)
(* and covariance terms are given in units of 2^-20.                         *)

FINE == 1024 * 1024        \* units per 1.0 of a scene's positions and covariances

(* A position in [-2, 2) as an s1.16 word, a covariance term in [0, 1) as a  *)
(* u0.18 word: the value floored to the format's step, in 18 bits.           *)
ToS1_16(v) == (v \div (FINE \div 65536)) % 262144
ToU0_18(v) == (v \div (FINE \div 262144)) % 262144

(* The 11 words of a splat: X, Y, Z, COV[6], R[17:12] G[11:6] B[5:0], ALPHA.  *)
EncodeSplat(o) ==
    <<ToS1_16(o.x), ToS1_16(o.y), ToS1_16(o.z)>>
    \o [j \in 1 .. 6 |-> ToU0_18(o.cov[j])]
    \o <<(o.r \div 4) * 4096 + (o.g \div 4) * 64 + (o.b \div 4), o.alpha>>

RECURSIVE EncodeRecords(_, _)
EncodeRecords(scene, i) ==
    IF i > Len(scene) THEN <<>>
    ELSE EncodeSplat(scene[i]) \o EncodeRecords(scene, i + 1)

(* The frame: sync word, splat count, the records; as bytes.                 *)
EncodeScene(scene) ==
    PackWords(<<SYNC_WORD, Len(scene)>> \o EncodeRecords(scene, 1))

Original(x, y, z, cov, r, g, b, alpha) ==
    [x |-> x, y |-> y, z |-> z, cov |-> cov, r |-> r, g |-> g, b |-> b, alpha |-> alpha]

(* Scene splats: a red splat at z = -1 whose fields the format holds         *)
(* exactly; one at the negative end of the position range with position     *)
(* and covariance bits below the format's steps and colours that are not     *)
(* 6-bit values replicated to 8 bits; one at the positive end of the ranges; *)
(* one with mid-range colours.                                               *)
Originals ==
    { Original(0, 0, -FINE, <<20972, 0, 0, 20972, 0, 20972>>, 255, 0, 0, 255),
      Original(5, -7, -2 * FINE, <<3, 1, 2, 7, 5, 1023>>, 1, 130, 254, 1),
      Original(2 * FINE - 1, FINE + 17, -1, <<FINE - 1, 4, 8, FINE - 4, 16, 65537>>,
               85, 128, 3, 128),
      Original(-FINE - 9, 31, 16, <<0, 0, 0, 0, 0, 0>>, 64, 127, 200, 0) }

RECURSIVE ScenesOfLen(_)
ScenesOfLen(n) ==
    IF n = 0 THEN {<<>>}
    ELSE {Append(sc, o) : sc \in ScenesOfLen(n - 1), o \in Originals}

(* Scenes of up to MAX_SPLATS + 1 splats, in every order. *)
CodecScenes == UNION {ScenesOfLen(n) : n \in 0 .. MAX_SPLATS + 1}

InitCodec ==
    /\ running = 1
    /\ use_fpga = 0
    /\ serial_in = <<>>
    /\ ctrl = <<0, 0, 0, 0>>
    /\ desc = <<>>
    /\ timeout = 0
    /\ fb = FbInit(CHOOSE d \in FbDevices : d.bits_per_pixel = 32)
    /\ pixels = ClearSurface(fb)
    /\ tile_buf = ZeroTile
    /\ count = 0
    /\ splats_3d = EmptyFn
    /\ splats_2d = [i \in 0 .. MAX_SPLATS - 1 |-> ZeroSplat2D]
    /\ sort_idx = EmptyFn
    /\ cam = CamInit(fb.width, fb.height)
    /\ pc = "send"
    /\ frame = 0
    /\ call = NoCall
    /\ blend_log = <<>>

(* The sender puts the frame of a scene on the line. *)
serdes_send(scene) ==
    /\ pc = "send"
    /\ serial_in' = EncodeScene(scene)
    /\ call' = [fn |-> "serdes_send", scene |-> scene]
    /\ pc' = "serial"
    /\ UNCHANGED <<splats_3d, splats_2d, sort_idx, count, cam, fb, pixels, tile_buf,
                   frame, blend_log, running, use_fpga, ctrl, desc, timeout>>

NextCodec ==
    \/ \E scene \in CodecScenes : serdes_send(scene)
    \/ serdes_recv_splats
    \/ \E splat_count \in SplatCounts : generate_test_splats(splat_count)

SpecCodec == InitCodec /\ [][NextCodec]_vars

(* The receive step of a sent scene. *)
IsRoundTrip == pc = "serial" /\ call.fn = "serdes_send" /\ pc' # "serial"

(* Original i of the sent scene against received record i: position and      *)
(* covariance errors in units of 2^-20, the colours and opacity stored.      *)
PositionsWithin(o, e, step) ==
    /\ Abs(e.x * (FINE \div 65536) - o.x) <= step
    /\ Abs(e.y * (FINE \div 65536) - o.y) <= step
    /\ Abs(e.z * (FINE \div 65536) - o.z) <= step

CovariancesWithin(o, e, step) ==
    \A j \in 1 .. 6 : Abs(e.cov[j] * (FINE \div 262144) - o.cov[j]) <= step

(* C21 as stated: the receive returns as many splats as the scene has, in    *)
(* the same order, positions within 2^-16, covariances within 2^-18,         *)
(* colours and opacity exactly equal to the originals.                       *)
C21_RoundTripExact ==
    [][IsRoundTrip =>
        LET scene == call.scene IN
        /\ call'.ret = Len(scene)
        /\ count' = Len(scene)
        /\ \A i \in 1 .. Len(scene) :
              /\ PositionsWithin(scene[i], call'.exact[i], FINE \div 65536)
              /\ CovariancesWithin(scene[i], call'.exact[i], FINE \div 262144)
              /\ splats_3d'[i - 1].r = scene[i].r
              /\ splats_3d'[i - 1].g = scene[i].g
              /\ splats_3d'[i - 1].b = scene[i].b
              /\ splats_3d'[i - 1].alpha = scene[i].alpha]_vars

(* C21, amended: for a scene of 1 to MAX_SPLATS splats the receive returns   *)
(* as many splats as the scene has, in the same order, positions within      *)
(* 2^-16, covariances within 2^-18 and opacity exact; each colour channel is *)
(* within 3 of the original and equal to it when the original is a 6-bit     *)
(* value replicated to 8 bits (v << 2 | v >> 4).  The stored record is the   *)
(* exact record on the store's float fields.                                 *)
C21_RoundTripQuantised ==
    [][(IsRoundTrip /\ Len(call.scene) \in 1 .. MAX_SPLATS) =>
        LET scene == call.scene IN
        /\ call'.ret = Len(scene)
        /\ count' = Len(scene)
        /\ Len(call'.exact) = Len(scene)
        /\ \A i \in 1 .. Len(scene) :
              LET o == scene[i]
                  e == call'.exact[i]
                  got == splats_3d'[i - 1]
              IN  /\ PositionsWithin(o, e, FINE \div 65536)
                  /\ CovariancesWithin(o, e, FINE \div 262144)
                  /\ got.x = e.x \div (65536 \div ONE)
                  /\ got.cov[6] = e.cov[6] \div (262144 \div ONE)
                  /\ \A ch \in {<<o.r, got.r>>, <<o.g, got.g>>, <<o.b, got.b>>} :
                        /\ Abs(ch[2] - ch[1]) <= 3
                        /\ ch[1] = Scale6To8(ch[1] \div 4) => ch[2] = ch[1]
                  /\ got.alpha = o.alpha]_vars

(* A two-splat scene was received: the splat at the negative end of the      *)
(* range (x = 5 * 2^-20, z = -2, colours (1, 130, 254)) first, the red       *)
(* splat second; the first came back with colours (0, 130, 255).             *)
C21_Witness ==
    /\ pc = "loop"
    /\ call.fn = "serdes_recv_splats"
    /\ call.ret = 2
    /\ count = 2
    /\ call.exact[1].z = -131072
    /\ call.exact[1].x = 0
    /\ splats_3d[0].r = 0 /\ splats_3d[0].g = 130 /\ splats_3d[0].b = 255
    /\ splats_3d[1].r = 255 /\ splats_3d[1].alpha = 255

-----------------------------------------------------------------------------
(* The render loop with the interrupt signal.                                *)

InitLoop ==
    /\ InitFrame
    /\ fb.bpp = 32
    /\ splats_2d = [i \in 0 .. MAX_SPLATS - 1 |-> ZeroSplat2D]

(* sigint_handler: may run between any two steps of main. *)
sigint_handler ==
    /\ running # 0
    /\ pc # "done"
    /\ running' = 0
    /\ UNCHANGED <<splats_3d, splats_2d, sort_idx, count, cam, fb, pixels, tile_buf,
                   pc, frame, call, blend_log, use_fpga, serial_in, ctrl, desc,
                   timeout>>

(* The render loop ends: while (running) fails, or frame has reached         *)
(* max_frames.                                                               *)
main_exit ==
    /\ pc = "loop"
    /\ ~WhileRunning(running) \/ frame >= MaxFrames
    /\ pc' = "done"
    /\ UNCHANGED <<splats_3d, splats_2d, sort_idx, count, cam, fb, pixels, tile_buf,
                   frame, call, blend_log, running, use_fpga, serial_in, ctrl, desc,
                   timeout>>

NextLoop ==
    \/ NextFrame
    \/ sigint_handler
    \/ main_exit

SpecLoop == InitLoop /\ [][NextLoop]_vars

(* A step of main: every step of main moves pc, and main can step until the  *)
(* loop has ended.                                                           *)
MainStep ==
    /\ pc # "done"
    /\ pc' \in {"loop", "camera", "projected", "sorted", "done"}
    /\ pc' # pc

(* main runs whenever it can; the signal need not come. *)
FairLoop == SpecLoop /\ WF_pc(MainStep)

(* A frame is in progress: past the loop condition, before frame++. *)
InFrame == pc \in {"camera", "projected", "sorted"}

(* C18: with the run flag cleared while a frame is in progress, the frame's  *)
(* remaining stages run as they do with the flag set (project_splats, then   *)
(* sort_splats, then rasterize_splats, each with its full effect), no step   *)
(* starts another frame once the flag is cleared, and the loop exits after   *)
(* the frame: the flag decides nothing but the step at the loop condition.   *)
C18_InterruptedFrameCompletes ==
    /\ [][(running = 0 /\ pc = "camera") =>
             pc' = "projected"
             /\ splats_2d' = ProjectSplats(splats_3d, splats_2d, count, cam, fb)]_vars
    /\ [][(running = 0 /\ pc = "projected") =>
             pc' = "sorted" /\ sort_idx' = SortedIdx(splats_2d, count, sort_idx)]_vars
    /\ [][(running = 0 /\ pc = "sorted") =>
             /\ pc' = "loop" /\ frame' = frame + 1
             /\ pixels' = RasterizeSplats(pixels, tile_buf, splats_2d, sort_idx,
                                          count, fb).pixels]_vars
    /\ [][(running = 0 /\ pc = "loop") => (pc' = "done" /\ frame' = frame)]_vars
    /\ [][pc = "done" => FALSE]_vars
    /\ \A f \in 0 .. MaxFrames - 1 :
          (running = 0 /\ InFrame /\ frame = f) ~> (pc = "done" /\ frame = f + 1)

(* The flag was cleared during the first frame, after its projection: the    *)
(* sort and the rasterizer are still to run on a store with splats.          *)
C18_Witness ==
    /\ running = 0
    /\ pc = "projected"
    /\ frame = 0
    /\ count = MAX_SPLATS
    /\ MaxFrames > 1

-----------------------------------------------------------------------------
(* FPGA OFFLOAD: fpga_rasterize and the accelerator, on the geometry main    *)
(* sets with -fpga.                                                          *)

FPGA_W == 640
FPGA_H == 480
FPGA_FB_BASE == 805306368      \* 0x30000000
FPGA_DESC_BASE == 809500928    \* 0x30400100
FPGA_DESC_SIZE == 4864         \* bytes of the descriptor region (30 MB in the source)
FPGA_TIMEOUT == 12000          \* polls of 10 ms
P2_29 == 512 * 1024 * 1024

(* main's override of the geometry when use_fpga is set. *)
FpgaOverride(f) ==
    [f EXCEPT !.width = FPGA_W, !.height = FPGA_H,
              !.tiles_x = FPGA_W \div TILE_W, !.tiles_y = FPGA_H \div TILE_H]

(* A projected splat with the given bounding box. *)
BoxSplat(x0, y0, x1, y1) ==
    [ZeroSplat2D EXCEPT !.bbox_x0 = x0, !.bbox_y0 = y0, !.bbox_x1 = x1, !.bbox_y1 = y1,
                        !.opacity = 255, !.r = 255]

(* Projected and sorted stores handed to fpga_rasterize: no splat; one splat *)
(* inside one tile; two splats over the same four tiles, which fill the      *)
(* descriptor region before the last tiles; and a splat over two tiles with  *)
(* one in the last tile, for which no room is left.                          *)
FpgaInputs ==
    { [count |-> 0, splats_2d |-> EmptyFn, sort_idx |-> EmptyFn],
      [count |-> 1, splats_2d |-> [i \in {0} |-> BoxSplat(100, 100, 110, 110)],
       sort_idx |-> [i \in {0} |-> 0]],
      [count |-> 2, splats_2d |-> [i \in {0, 1} |-> BoxSplat(30 - i, 30, 34, 34 + i)],
       sort_idx |-> [i \in {0, 1} |-> 1 - i]],
      [count |-> 2,
       splats_2d |-> [i \in {0, 1} |-> IF i = 0 THEN BoxSplat(0, 0, 40, 10)
                                       ELSE BoxSplat(630, 470, 639, 479)],
       sort_idx |-> [i \in {0, 1} |-> i]] }

(* Byte offset of the next descriptor: after the last one, aligned to 8. *)
DescOffset(d) ==
    IF d = <<>> THEN 0
    ELSE ((d[Len(d)].offset + (2 + d[Len(d)].count * 4) * 8 + 7) \div 8) * 8

RECURSIVE CollectSplats(_, _, _, _, _, _, _)
(* The splat loop of one tile from sorted position si: the overlapping       *)
(* splats copied inline, until one does not fit in the descriptor region.    *)
CollectSplats(s2, sidx, n, si, tpx, tpy, got) ==
    IF si >= n THEN got.splats
    ELSE LET s == s2[sidx[si]]
         IN  IF ~OverlapsTile(s, tpx, tpy)
             THEN CollectSplats(s2, sidx, n, si + 1, tpx, tpy, got)
             ELSE IF got.offset + (2 + (Len(got.splats) + 1) * 4) * 8 > FPGA_DESC_SIZE
             THEN got.splats
             ELSE CollectSplats(s2, sidx, n, si + 1, tpx, tpy,
                                [got EXCEPT !.splats = Append(@, s)])

(* The descriptor of tile (tx, ty) at byte offset off. *)
TileDesc(s2, sidx, n, tx, ty, off) ==
    LET tpx == tx * TILE_W
        tpy == ty * TILE_H
        splats == CollectSplats(s2, sidx, n, 0, tpx, tpy, [offset |-> off, splats |-> <<>>])
    IN  [offset   |-> off,
         qaddr    |-> (FPGA_DESC_BASE + off) \div 8,
         fb_qaddr |-> ((FPGA_FB_BASE \div 8) + tpy * ((640 * 4) \div 8) + tpx \div 2) % P2_29,
         next     |-> 0,
         count    |-> Len(splats),
         tile_px  |-> tpx,
         tile_py  |-> tpy,
         splats   |-> splats]

(* The descriptors after the body of the tile loop for tile t, with the      *)
(* previous descriptor's next pointer patched.                               *)
BuildDesc(d, nd) ==
    IF d = <<>> THEN <<nd>>
    ELSE Append([d EXCEPT ![Len(d)].next = nd.qaddr], nd)

InitFpga ==
    /\ running = 1
    /\ use_fpga = 1
    /\ serial_in = <<>>
    /\ ctrl = <<0, 0, 0, 0>>
    /\ desc = <<>>
    /\ timeout = 0
    /\ fb = FpgaOverride(FbInit(CHOOSE d \in FbDevices : d.bits_per_pixel = 32))
    /\ pixels = EmptyFn
    /\ tile_buf = EmptyFn
    /\ \E in \in FpgaInputs :
          /\ count = in.count
          /\ splats_2d = in.splats_2d
          /\ sort_idx = in.sort_idx
    /\ splats_3d = EmptyFn
    /\ cam = 0
    /\ pc = "loop"
    /\ frame = 0
    /\ call = NoCall
    /\ blend_log = <<>>

(* The loop head and the frame up to the rasterizer call: cam_lookat,        *)
(* project_splats and sort_splats leave the store projected and sorted.      *)
fpga_frame ==
    /\ pc = "loop"
    /\ WhileRunning(running)
    /\ frame < MaxFrames
    /\ pc' = "sorted"
    /\ UNCHANGED <<splats_3d, splats_2d, sort_idx, count, cam, fb, pixels, tile_buf,
                   frame, call, blend_log, running, use_fpga, serial_in, ctrl, desc,
                   timeout>>

(* What the handoff has seen so far, kept across calls: pending, a request   *)
(* was issued and the driver has not observed the done flag set for it;      *)
(* answered, the number of the request (the call that issued it, from 1) the *)
(* accelerator answered when it last set the done flag.                      *)
Handoff(cl) ==
    IF cl = NoCall THEN [pending |-> FALSE, answered |-> 0]
    ELSE [pending |-> cl.pending, answered |-> cl.answered]

(* The number of the latest request issued: the calls returned, and the      *)
(* current one once it has set the request flag.                             *)
Issued == IF pc = "fpga_wait" THEN frame + 1 ELSE frame

(* fpga_rasterize, one pass of the tile loop: the descriptor of the next     *)
(* tile, or done_building when its header does not fit.  call records the    *)
(* control words the call has written so far.                                *)
fpga_build_desc ==
    /\ use_fpga = 1
    /\ pc \in {"sorted", "fpga_build"}
    /\ LET d   == IF pc = "sorted" THEN <<>> ELSE desc
           t   == Len(d)
           off == DescOffset(d)
       IN  IF off + 16 > FPGA_DESC_SIZE
           THEN /\ desc' = d
                /\ pc' = "fpga_signal"
           ELSE /\ desc' = BuildDesc(d, TileDesc(splats_2d, sort_idx, count,
                                                 t % fb.tiles_x, t \div fb.tiles_x, off))
                /\ pc' = IF t + 1 = fb.tiles_x * fb.tiles_y THEN "fpga_signal"
                         ELSE "fpga_build"
    /\ call' = [fn |-> "fpga_rasterize", writes |-> <<>>,
                pending |-> Handoff(call).pending, answered |-> Handoff(call).answered]
    /\ UNCHANGED <<splats_3d, splats_2d, sort_idx, count, cam, fb, pixels, tile_buf,
                   frame, blend_log, running, use_fpga, serial_in, ctrl, timeout>>

(* A write that sets the control word whatever the value. *)
CtrlWriteSet(c, w, v) == [c EXCEPT ![w + 1] = 1]

(* The control word w written with value v, and the record of the write. *)
CtrlWrite(c, w, v) == [c EXCEPT ![w + 1] = v]
Written(cl, w, v, d) == [cl EXCEPT !.writes = Append(@, [word |-> w, value |-> v, descs |-> Len(d)])]

(* ctx->ctrl[0] = first_tile_qaddr *)
fpga_write_first ==
    /\ pc = "fpga_signal"
    /\ ctrl' = CtrlWrite(ctrl, 0, IF desc = <<>> THEN 0 ELSE desc[1].qaddr)
    /\ call' = Written(call, 0, ctrl'[1], desc)
    /\ pc' = "fpga_clear"
    /\ UNCHANGED <<splats_3d, splats_2d, sort_idx, count, cam, fb, pixels, tile_buf,
                   frame, blend_log, running, use_fpga, serial_in, desc, timeout>>

(* ctx->ctrl[2] = 0 *)
fpga_clear_done ==
    /\ pc = "fpga_clear"
    /\ ctrl' = CtrlWrite(ctrl, 2, 0)
    /\ call' = Written(call, 2, 0, desc)
    /\ pc' = "fpga_request"
    /\ UNCHANGED <<splats_3d, splats_2d, sort_idx, count, cam, fb, pixels, tile_buf,
                   frame, blend_log, running, use_fpga, serial_in, desc, timeout>>

(* __sync_synchronize(); ctx->ctrl[1] = 1; int timeout = 0 *)
fpga_request ==
    /\ pc = "fpga_request"
    /\ ctrl' = CtrlWrite(ctrl, 1, 1)
    /\ call' = [Written(call, 1, 1, desc) EXCEPT !.pending = TRUE]
    /\ timeout' = 0
    /\ pc' = "fpga_wait"
    /\ UNCHANGED <<splats_3d, splats_2d, sort_idx, count, cam, fb, pixels, tile_buf,
                   frame, blend_log, running, use_fpga, serial_in, desc>>

(* The wait loop without its timeout test. *)
PollExpiredNever(t) == FALSE

(* if (timeout > 12000) break, after timeout++ *)
PollExpired(t) == t > FPGA_TIMEOUT

(* One evaluation of while (ctx->ctrl[2] == 0) and, when the flag is clear,  *)
(* the loop body; leaving the loop returns to main, which counts the frame   *)
(* (the local timeout ends with the call).  ctrl is a sequence, so the C     *)
(* word ctrl[k] is ctrl[k + 1] here.  A flag seen set that answers this      *)
(* call's request ends the request.                                          *)
fpga_poll ==
    /\ pc = "fpga_wait"
    /\ IF ctrl[3] # 0 \/ PollExpired(timeout + 1)
       THEN /\ pc' = "loop"
            /\ frame' = frame + 1
            /\ timeout' = 0
       ELSE /\ pc' = pc
            /\ frame' = frame
            /\ timeout' = timeout + 1
    /\ call' = IF ctrl[3] # 0 /\ call.answered = frame + 1
               THEN [call EXCEPT !.pending = FALSE] ELSE call
    /\ UNCHANGED <<splats_3d, splats_2d, sort_idx, count, cam, fb, pixels, tile_buf,
                   blend_log, running, use_fpga, serial_in, ctrl, desc>>

(* The accelerator finishes a requested frame: it clears the request flag,   *)
(* sets the done flag and counts the frame (frame_request: HPS writes 1,     *)
(* FPGA clears; frame_done: FPGA writes 1; frame_number: FPGA increments).   *)
(* It may do so at any time after the request, or never; the request it      *)
(* answers is the latest one issued.                                         *)
accel_done ==
    /\ ctrl[2] = 1
    /\ ctrl[4] < MaxFrames
    /\ ctrl' = [ctrl EXCEPT ![2] = 0, ![3] = 1, ![4] = @ + 1]
    /\ call' = [call EXCEPT !.answered = Issued]
    /\ UNCHANGED <<splats_3d, splats_2d, sort_idx, count, cam, fb, pixels, tile_buf,
                   pc, frame, blend_log, running, use_fpga, serial_in, desc,
                   timeout>>

NextFpga ==
    \/ fpga_frame
    \/ fpga_build_desc
    \/ fpga_write_first
    \/ fpga_clear_done
    \/ fpga_request
    \/ fpga_poll
    \/ accel_done
    \/ main_exit

SpecFpga == InitFpga /\ [][NextFpga]_vars

(* A step of the driver: each one moves pc or the poll counter, and the      *)
(* driver can step until the loop has ended.                                 *)
DriverStep ==
    /\ pc # "done"
    /\ pc' \in {"loop", "sorted", "fpga_build", "fpga_signal", "fpga_clear",
               "fpga_request", "fpga_wait", "done"}
    /\ timeout' \in {0, timeout + 1}
    /\ <<pc', timeout'>> # <<pc, timeout>>

(* The driver runs whenever it can; the accelerator need not answer.  One    *)
(* store (a single splat) is enough for the wait loop.                       *)
InitFpgaOne == InitFpga /\ count = 1

SpecFpgaOne == InitFpgaOne /\ [][NextFpga]_vars

FairFpga == SpecFpgaOne /\ WF_<<pc, timeout>>(DriverStep)

(* The control-word writes of the current fpga_rasterize call. *)
FpgaWrites == IF call = NoCall THEN <<>> ELSE call.writes

(* The step is the driver's (the accelerator moves neither pc nor timeout). *)
IsDriverStep == <<pc', timeout'>> # <<pc, timeout>>

(* The driver's control writes of a call are, in order, ctrl[0] with the     *)
(* first descriptor's address, ctrl[2] with 0 and ctrl[1] with 1; each is    *)
(* recorded as it changes the control block; no descriptor is written after  *)
(* the first of them; the driver writes neither 1 to ctrl[2] nor ctrl[3].    *)
SignalOrder ==
    /\ [](/\ Len(FpgaWrites) <= 3
          /\ Len(FpgaWrites) >= 1 =>
                FpgaWrites[1].word = 0 /\ FpgaWrites[1].value = FPGA_DESC_BASE \div 8
          /\ Len(FpgaWrites) >= 2 => FpgaWrites[2].word = 2 /\ FpgaWrites[2].value = 0
          /\ Len(FpgaWrites) >= 3 => FpgaWrites[3].word = 1 /\ FpgaWrites[3].value = 1
          /\ \A k \in 1 .. Len(FpgaWrites) : FpgaWrites[k].descs = Len(desc))
    /\ [][(IsDriverStep /\ ctrl' # ctrl) =>
             /\ Len(call'.writes) = Len(FpgaWrites) + 1
             /\ LET w == call'.writes[Len(call'.writes)]
                IN  ctrl' = [ctrl EXCEPT ![w.word + 1] = w.value]]_vars
    /\ [][desc' # desc => call'.writes = <<>>]_vars
    /\ [][IsDriverStep => (ctrl'[4] = ctrl[4] /\ (ctrl'[3] # ctrl[3] => ctrl'[3] = 0))]_vars

(* C19 as stated: in every fpga_rasterize call the driver writes the         *)
(* descriptors of all tiles, then ctrl[0], then ctrl[2] = 0, and only then   *)
(* ctrl[1] = 1; it never writes 1 to ctrl[2] and never writes ctrl[3].       *)
C19_AllDescriptorsThenSignal ==
    /\ SignalOrder
    /\ [](FpgaWrites # <<>> => Len(desc) = fb.tiles_x * fb.tiles_y)

(* C19, amended: the driver writes the tile descriptors in tile order, all   *)
(* of them unless the next header no longer fits in the descriptor region    *)
(* (then those written so far), then ctrl[0], then ctrl[2] = 0, and only     *)
(* then ctrl[1] = 1; it never writes 1 to ctrl[2] and never writes ctrl[3].  *)
C19_DescriptorsThenSignal ==
    /\ SignalOrder
    /\ [](FpgaWrites # <<>> =>
             \/ Len(desc) = fb.tiles_x * fb.tiles_y
             \/ DescOffset(desc) + 16 > FPGA_DESC_SIZE)
    /\ [](pc # "fpga_wait" => \A t \in 1 .. Len(desc) :
             /\ desc[t].tile_px = ((t - 1) % fb.tiles_x) * TILE_W
             /\ desc[t].tile_py = ((t - 1) \div fb.tiles_x) * TILE_H
             /\ t < Len(desc) => desc[t].next = desc[t + 1].qaddr)

(* The request flag has been set after the descriptors of all tiles, one of  *)
(* which holds a splat, were written and linked.                             *)
C19_Witness ==
    /\ pc = "fpga_wait"
    /\ Len(FpgaWrites) = 3
    /\ ctrl[2] = 1
    /\ Len(desc) = fb.tiles_x * fb.tiles_y
    /\ \E t \in 1 .. Len(desc) : desc[t].count > 0
    /\ desc[Len(desc)].next = 0

(* C20: the wait loop of fpga_rasterize ends after at most FPGA_TIMEOUT + 1  *)
(* evaluations of its condition even if the done flag is never set: the      *)
(* poll counter never passes FPGA_TIMEOUT, the poll at FPGA_TIMEOUT returns  *)
(* to main, main goes on to the next frame, and every behaviour runs all its *)
(* frames and leaves the render loop.                                        *)
C20_WaitIsBounded ==
    /\ [][timeout' <= FPGA_TIMEOUT]_vars
    /\ [][(pc = "fpga_wait" /\ timeout = FPGA_TIMEOUT /\ IsDriverStep) =>
             (pc' = "loop" /\ frame' = frame + 1)]_vars
    /\ [][(pc = "loop" /\ frame < MaxFrames /\ IsDriverStep) => pc' = "sorted"]_vars
    /\ <>(pc = "done" /\ frame = MaxFrames)

(* The accelerator has not answered at all: the first call ran into the      *)
(* timeout, and the second frame's call is at its last poll.                 *)
C20_Witness ==
    /\ pc = "fpga_wait"
    /\ timeout = FPGA_TIMEOUT
    /\ frame = 1
    /\ ctrl[3] = 0 /\ ctrl[4] = 0

(* The step writes a tile descriptor, or the first-descriptor pointer. *)
DescWritten ==
    /\ pc \in {"sorted", "fpga_build"}
    /\ pc' \in {"fpga_build", "fpga_signal"}
    /\ Len(desc') = (IF pc = "sorted" THEN 0 ELSE Len(desc)) + 1
FirstWritten == pc = "fpga_signal" /\ pc' = "fpga_clear"

(* C26: whenever the wait loop of fpga_rasterize finds the done flag set,    *)
(* the accelerator set it in answer to the request this call issued, not to  *)
(* the request of an earlier call whose wait timed out.                      *)
C26_DoneAnswersThisCall ==
    [][(pc = "fpga_wait" /\ pc' = "loop" /\ ctrl[3] # 0) =>
          call.answered = frame + 1]_vars

(* C27: the driver writes no tile descriptor and not the first-descriptor    *)
(* pointer while a request is outstanding: issued, and its done flag not yet *)
(* observed by the driver.                                                   *)
C27_NoWriteWhileOutstanding ==
    [][(DescWritten \/ FirstWritten) => ~Handoff(call).pending]_vars

-----------------------------------------------------------------------------
(* main's start-up in front of the CPU rasterizer: fb_init, the override of  *)
(* the render size when offload is requested, and the return to the CPU path *)
(* when fpga_init fails.                                                     *)

(* The surface record after fb_init and the override: offload is 1 when      *)
(* -fpga was given.  The override changes the render size and the tile       *)
(* counts; stride, mmap_size and the mapping stay as fb_init set them.       *)
MainFb(dev, offload) ==
    IF offload # 0 THEN FpgaOverride(FbInit(dev)) ELSE FbInit(dev)

(* The run configurations that render on the CPU: offload not requested, or  *)
(* requested and fpga_init failed, which clears use_fpga.  The surface is    *)
(* the mapping fb_init acquired and cleared.                                 *)
InitFallback ==
    /\ CpuDriver
    /\ \E dev \in FlushDevices, offload \in {0, 1} : fb = MainFb(dev, offload)
    /\ pixels = ClearSurface(fb)
    /\ tile_buf \in FlushBuffers
    /\ blend_log = <<>>
    /\ pc = "flush"
    /\ call = NoCall
    /\ count = 0
    /\ splats_3d = EmptyFn
    /\ splats_2d = EmptyFn
    /\ sort_idx = EmptyFn
    /\ cam = 0
    /\ frame = 0

(* Tiles of the tile loop of rasterize_splats taken up here: the first three *)
(* and the last of a row, of the first two rows and the last.                *)
FallbackTiles(f) ==
    {t \in {0, 1, 2, f.tiles_x - 1} \X {0, 1, f.tiles_y - 1} :
        t[1] \in 0 .. f.tiles_x - 1 /\ t[2] \in 0 .. f.tiles_y - 1}

NextFallback == \E t \in FallbackTiles(fb) : tile_flush(t[1], t[2])

SpecFallback == InitFallback /\ [][NextFallback]_vars

(* The stores dst[tx] of tile_flush(fb, tile_x, tile_y), as <<sy, x0 + tx>>: *)
(* rows from y0 until TILE_H rows are done or sy reaches fb->height.         *)
FlushWrites(f, tile_x, tile_y) ==
    {<<tile_y * TILE_H + ty, tile_x * TILE_W + tx>> :
        ty \in {r \in 0 .. TILE_H - 1 : tile_y * TILE_H + r < f.height},
        tx \in 0 .. TILE_W - 1}

(* The byte offset in the mapping of the store w: dst is fb->pixels +        *)
(* sy * stride_pixels + x0, in units of the pixel size.                      *)
WriteOffset(f, w) == (w[1] * StridePixels(f) + w[2]) * (f.bpp \div 8)

(* C28: every store of tile_flush lands inside the buffer fb_init acquired,  *)
(* at a byte offset below mmap_size and in a column inside the buffer's line *)
(* length, in every run configuration that renders on the CPU, the one with  *)
(* offload requested and fpga_init failed included.                          *)
C28_FlushInsideBuffer ==
    [][IsFlush =>
          \A w \in FlushWrites(fb, FlushedTile[1], FlushedTile[2]) :
              /\ WriteOffset(fb, w) < fb.mmap_size
              /\ w[2] * (fb.bpp \div 8) < fb.stride]_vars

=============================================================================
